---------------------------- MODULE Spec2Model ----------------------------
(***************************************************************************)
(* night-kitchen: the scheduler's power monitor (delay inhibitor lock      *)
(* around PrepareForSleep / PrepareForShutdown), its wake-alarm planner,    *)
(* the RTC driver it programs and the resume timestamp it writes; and the   *)
(* runner, which starts the payload unit, waits for its job and then powers *)
(* the machine off or suspends it if it attributes the boot or wake to      *)
(* itself.                                                                  *)
(*                                                                         *)
(* Representation of time.  TLC's integers are 32 bits wide, the program's *)
(* are 64, so a quantity of time is a triple <<d, s, f>>: d whole days,    *)
(* s seconds of the day (0..86399) and f the fraction of the second.       *)
(*   - a u64 count of microseconds (a D-Bus "t" value) is <<d, s, us>>     *)
(*     with us in 0..999999, value (d*86400 + s)*10^6 + us;                *)
(*   - an i64 count of nanoseconds, a chrono Duration or a DateTime<Utc>   *)
(*     (nanoseconds since the epoch) is <<d, s, ns>> with ns in            *)
(*     0..999999999, value (d*86400 + s)*10^9 + ns; d may be negative.     *)
(*     A NaiveDateTime inside a leap second has ns in 10^9..2*10^9-1,      *)
(*     as chrono stores it.                                                *)
(* Every component fits TLC's integers for every u64 and i64 value.        *)
(***************************************************************************)
EXTENDS Integers, Sequences, FiniteSets, TLC

---------------------------------------------------------------------------
(* Arithmetic on time triples *)

SecsPerDay == 24 * 60 * 60
NanosPerSec == 1000 * 1000 * 1000
MicrosPerSec == 1000 * 1000

\* a < b for two normalised triples
TLess(a, b) ==
    \/ a[1] < b[1]
    \/ a[1] = b[1] /\ a[2] < b[2]
    \/ a[1] = b[1] /\ a[2] = b[2] /\ a[3] < b[3]

TLeq(a, b) == a = b \/ TLess(a, b)

TMin(a, b) == IF TLess(b, a) THEN b ELSE a

\* Carries the fraction into the seconds and the seconds into the days.
TNorm(d, s, f) ==
    LET s2 == s + (f \div NanosPerSec)
    IN  <<d + (s2 \div SecsPerDay), s2 % SecsPerDay, f % NanosPerSec>>

TAdd(a, b) == TNorm(a[1] + b[1], a[2] + b[2], a[3] + b[3])

TSub(a, b) == TNorm(a[1] - b[1], a[2] - b[2], a[3] - b[3])

\* 2^64 and 2^63 nanoseconds
Two64 == <<213503, 84873, 709551616>>
Two63 == <<106751, 85636, 854775808>>

\* u64::MAX as a count of microseconds
U64Max == <<213503982, 28909, 551615>>

Zero == <<0, 0, 0>>

---------------------------------------------------------------------------
(* Results.  A Result<T> or Option<T> is a record [tag, val]: tag "ok" with  *)
(* the value, tag "err" (an Err(..) the caller can handle), tag "none", or  *)
(* tag "panic" (the thread unwinds: nothing after it in the caller runs).   *)

Ok(v) == [tag |-> "ok", val |-> v]
Err == [tag |-> "err", val |-> Zero]
None == [tag |-> "none", val |-> Zero]
Panic == [tag |-> "panic", val |-> Zero]

---------------------------------------------------------------------------
(* time.rs: clock conversions *)

\* k * 2^64 nanoseconds for k in 0..1000 (2^64 ns = 213503 d 84873 s 709 ms 551616 ns)
Two64Times(k) ==
    TNorm(213503 * k,
          84873 * k + ((709 * k) \div 1000),
          ((709 * k) % 1000) * (1000 * 1000) + 551616 * k)

\* A product below 1000 * 2^64 reduced modulo 2^64, as the u64 multiplication
\* leaves it.  The quotient is t[1] \div 213503 or one less.
WrapU64(t) ==
    LET k == t[1] \div 213503
    IN  IF TLeq(Two64Times(k), t)
        THEN TSub(t, Two64Times(k))
        ELSE TSub(t, Two64Times(k - 1))

\* `x as i64`: the two's complement reading of a u64
AsI64(t) == IF TLess(t, Two63) THEN t ELSE TSub(t, Two64)

\* Utc.timestamp_nanos((usecs * 1000) as i64).  The multiplication is on u64:
\* a build with overflow checks (checks = TRUE) panics when the product does not
\* fit, a build without them wraps.
from_timestamp_usecs(usecs, checks) ==
    LET product == <<usecs[1], usecs[2], usecs[3] * 1000>>
    IN  IF TLess(product, Two64)
        THEN Ok(AsI64(product))
        ELSE IF checks THEN Panic ELSE Ok(AsI64(WrapU64(product)))

\* clock_gettime(clock): the reading, or the panic on a nonzero status
clock_gettime(clk) == IF clk.status # 0 THEN Panic ELSE Ok(clk)

\* Utc::now(): the realtime clock as an instant.  SystemTime::now() unwraps
\* the result of clock_gettime, and chrono takes the time since 1970-01-01
\* and panics ("system time before Unix epoch") when there is none.
utc_now(clk) ==
    IF clk.status # 0 THEN Panic
    ELSE IF TLess(clk.realtime, Zero) THEN Panic
    ELSE Ok(clk.realtime)

\* monotonic + (realtime_now - monotonic_now), the two clocks read at the call
monotonic_to_realtime(monotonic, clk) ==
    TAdd(monotonic, TSub(clk.realtime, clk.monotonic))

---------------------------------------------------------------------------
(* scheduler/main.rs: the wake-alarm planner *)

TIMER_UNITS == <<"night-kitchen-daily.timer", "night-kitchen-weekly.timer">>

Units == 1..Len(TIMER_UNITS)

\* What one timer unit answers: the results of the two property reads,
\* NextElapseUSecRealtime and NextElapseUSecMonotonic, each Ok(u64) or Err.
TimerReport(rt, mono) == [rt |-> rt, mono |-> mono]

\* next_activation(logger, conn, timer_unit): the unit's next elapse as a
\* realtime instant.  The realtime value is read and converted before the
\* monotonic one is read.
next_activation(r, clk, checks) ==
    IF r.rt.tag = "err" THEN Err
    ELSE
    LET next_realtime ==
            IF r.rt.val = Zero THEN None ELSE from_timestamp_usecs(r.rt.val, checks)
    IN  IF next_realtime.tag = "panic" THEN Panic
        ELSE IF r.mono.tag = "err" THEN Err
        ELSE
        LET m == from_timestamp_usecs(r.mono.val, checks)
            next_monotonic ==
                IF r.mono.val = Zero THEN None
                ELSE IF m.tag = "panic" THEN Panic
                ELSE IF clock_gettime(clk).tag = "panic" THEN Panic
                ELSE Ok(monotonic_to_realtime(m.val, clk))
        IN  IF next_monotonic.tag = "panic" THEN Panic
            ELSE IF next_monotonic.tag = "none"
                 THEN (IF next_realtime.tag = "none" THEN Err ELSE next_realtime)
            ELSE IF next_realtime.tag = "none" THEN next_monotonic
            ELSE Ok(TMin(next_realtime.val, next_monotonic.val))

\* A fold step under which an Err(..) discards what was accumulated.
fold_step_abort(acc, time) ==
    IF acc.tag = "panic" \/ time.tag = "panic" THEN Panic
    ELSE IF time.tag = "err" THEN None
    ELSE IF acc.tag = "none" THEN time
    ELSE Ok(TMin(acc.val, time.val))

\* The closure folded over the units' activations: an Err(..) is logged and
\* the accumulator kept, otherwise the earlier instant is kept.
fold_step(acc, time) ==
    IF acc.tag = "panic" \/ time.tag = "panic" THEN Panic
    ELSE IF time.tag = "err" THEN acc
    ELSE IF acc.tag = "none" THEN time
    ELSE Ok(TMin(acc.val, time.val))

\* TIMER_UNITS.iter().map(next_activation).fold(None, ..) over the first n units
RECURSIVE fold_units(_, _, _, _)
fold_units(ts, clk, checks, n) ==
    IF n = 0 THEN None
    ELSE fold_step(fold_units(ts, clk, checks, n - 1),
                   next_activation(ts[n], clk, checks))

\* alarm_time of the PreShutdown callback
alarm_time_of(ts, clk, checks) == fold_units(ts, clk, checks, Len(TIMER_UNITS))

---------------------------------------------------------------------------
(* scheduler/rtcwake.rs: RtcTime and the chrono calendar it converts to.    *)
(* A NaiveDateTime is <<days since 1970-01-01, second of the day, frac>>.   *)

IsLeapYear(y) == (y % 4 = 0 /\ y % 100 # 0) \/ y % 400 = 0

DaysInMonth(y, m) ==
    IF m = 2 THEN (IF IsLeapYear(y) THEN 29 ELSE 28)
    ELSE IF m \in {4, 6, 9, 11} THEN 30 ELSE 31

\* NaiveDate::from_ymd(y, m, d) as days since 1970-01-01 (proleptic Gregorian)
DaysFromCivil(y, m, d) ==
    LET yy == IF m <= 2 THEN y - 1 ELSE y
        era == yy \div 400
        yoe == yy - era * 400
        mp == IF m > 2 THEN m - 3 ELSE m + 9
        doy == ((153 * mp + 2) \div 5) + d - 1
        doe == yoe * 365 + (yoe \div 4) - (yoe \div 100) + doy
    IN  era * 146097 + doe - 719468

\* year(), month() and day() of the date `days` after 1970-01-01
CivilFromDays(days) ==
    LET z == days + 719468
        era == z \div 146097
        doe == z - era * 146097
        yoe == (doe - (doe \div 1460) + (doe \div 36524) - (doe \div 146096)) \div 365
        doy == doe - (365 * yoe + (yoe \div 4) - (yoe \div 100))
        mp == (5 * doy + 2) \div 153
        d == doy - ((153 * mp + 2) \div 5) + 1
        m == IF mp < 10 THEN mp + 3 ELSE mp - 9
    IN  [year |-> IF m <= 2 THEN yoe + era * 400 + 1 ELSE yoe + era * 400,
         month |-> m, day |-> d]

RtcTime(sec, min, hour, mday, mon, year) ==
    [tm_sec |-> sec, tm_min |-> min, tm_hour |-> hour, tm_mday |-> mday,
     tm_mon |-> mon, tm_year |-> year, tm_wday |-> 0, tm_yday |-> 0, tm_isdst |-> 0]

\* to_chrono decoding tm_sec = 60 to second 59 and 999 ms, short of a leap second
to_chrono_999(t) ==
    LET y == t.tm_year + 1900
        m == t.tm_mon + 1
    IN  IF \/ y < -262143 \/ y > 262142
           \/ t.tm_mon < 0 \/ m > 12
           \/ t.tm_mday < 1 \/ t.tm_mday > DaysInMonth(y, m)
           \/ t.tm_hour < 0 \/ t.tm_hour > 23
           \/ t.tm_min < 0 \/ t.tm_min > 59
           \/ t.tm_sec < 0 \/ t.tm_sec > 60
        THEN Panic
        ELSE IF t.tm_sec = 60
        THEN Ok(<<DaysFromCivil(y, m, t.tm_mday),
                  t.tm_hour * 3600 + t.tm_min * 60 + 59,
                  999 * (1000 * 1000)>>)
        ELSE Ok(<<DaysFromCivil(y, m, t.tm_mday),
                  t.tm_hour * 3600 + t.tm_min * 60 + t.tm_sec,
                  0>>)

\* from_chrono storing the month as chrono counts it, from 1
from_chrono_month1(dt) ==
    LET date == CivilFromDays(dt[1])
    IN  RtcTime(IF dt[3] \div (1000 * 1000) > 999 THEN 60 ELSE dt[2] % 60,
                (dt[2] \div 60) % 60,
                dt[2] \div 3600,
                date.day,
                date.month,
                date.year - 1900)

\* RtcTime::to_chrono: Ok(NaiveDateTime), or a panic of NaiveDate::from_ymd /
\* NaiveTime::from_hms on fields that are no calendar time.  from_ymd takes
\* the years -262143 to 262142 (a year beyond them, or a tm_year + 1900 that
\* leaves i32, panics in either build); a negative field cast to u32 is out
\* of range as well.
to_chrono(t) ==
    LET y == t.tm_year + 1900
        m == t.tm_mon + 1
    IN  IF \/ y < -262143 \/ y > 262142
           \/ t.tm_mon < 0 \/ m > 12
           \/ t.tm_mday < 1 \/ t.tm_mday > DaysInMonth(y, m)
           \/ t.tm_hour < 0 \/ t.tm_hour > 23
           \/ t.tm_min < 0 \/ t.tm_min > 59
           \/ t.tm_sec < 0 \/ t.tm_sec > 60
        THEN Panic
        ELSE IF t.tm_sec = 60
        THEN Ok(<<DaysFromCivil(y, m, t.tm_mday),
                  t.tm_hour * 3600 + t.tm_min * 60 + 59,
                  1999 * (1000 * 1000)>>)
        ELSE Ok(<<DaysFromCivil(y, m, t.tm_mday),
                  t.tm_hour * 3600 + t.tm_min * 60 + t.tm_sec,
                  0>>)

\* RtcTime::from_chrono
from_chrono(dt) ==
    LET date == CivilFromDays(dt[1])
    IN  RtcTime(IF dt[3] \div (1000 * 1000) > 999 THEN 60 ELSE dt[2] % 60,
                (dt[2] \div 60) % 60,
                dt[2] \div 3600,
                date.day,
                date.month - 1,
                date.year - 1900)

\* RtcWakeAlarm as the ioctls carry it
RtcWakeAlarm(enabled, pending, time) ==
    [enabled |-> enabled, pending |-> pending, time |-> time]

\* RtcWakeAlarm::enabled
enabled(alarm) == alarm.enabled # 0

\* RtcWakeAlarm::set_enabled
set_enabled(alarm, on) == [alarm EXCEPT !.enabled = IF on THEN 1 ELSE 0]

\* RtcWakeAlarm::set_time
set_time(alarm, time) == [alarm EXCEPT !.time = from_chrono(time)]

---------------------------------------------------------------------------
(* scheduler/rtcwake.rs: the hardware clock mode.  /etc/adjtime is          *)
(* [exists, readable, lines]; a line is a sequence of characters, each a    *)
(* string.                                                                  *)

\* The characters str::trim strips: those with the Unicode property
\* White_Space.  A character outside TLA+'s string escapes is written as the
\* string naming its code point ("U+00A0").
Whitespace ==
    { "\t", "\n", "U+000B", "\f", "\r", " ", "U+0085", "U+00A0", "U+1680",
      "U+2000", "U+2001", "U+2002", "U+2003", "U+2004", "U+2005", "U+2006",
      "U+2007", "U+2008", "U+2009", "U+200A", "U+2028", "U+2029", "U+202F",
      "U+205F", "U+3000" }

RECURSIVE TrimStart(_)
TrimStart(l) ==
    IF l # <<>> /\ Head(l) \in Whitespace THEN TrimStart(Tail(l)) ELSE l

RECURSIVE TrimEnd(_)
TrimEnd(l) ==
    IF l # <<>> /\ l[Len(l)] \in Whitespace
    THEN TrimEnd(SubSeq(l, 1, Len(l) - 1)) ELSE l

\* str::trim
Trim(l) == TrimEnd(TrimStart(l))

ModeOk(m) == [tag |-> "ok", mode |-> m]
ModeErr == [tag |-> "err", mode |-> "none"]

\* read_clock_mode falling back to UTC on a file it cannot make sense of
read_clock_mode_default(file) ==
    IF ~file.exists THEN ModeOk("Utc")
    ELSE IF ~file.readable THEN ModeErr
    ELSE IF Len(file.lines) < 3 THEN ModeOk("Utc")
    ELSE LET mode_line == Trim(file.lines[3])
         IN  IF mode_line = <<"L", "O", "C", "A", "L">> THEN ModeOk("Local")
             ELSE ModeOk("Utc")

\* read_clock_mode comparing the third line as it stands
read_clock_mode_untrimmed(file) ==
    IF ~file.exists THEN ModeOk("Utc")
    ELSE IF ~file.readable THEN ModeErr
    ELSE IF Len(file.lines) < 3 THEN ModeErr
    ELSE LET mode_line == file.lines[3]
         IN  IF mode_line = <<"U", "T", "C">> THEN ModeOk("Utc")
             ELSE IF mode_line = <<"L", "O", "C", "A", "L">> THEN ModeOk("Local")
             ELSE ModeErr

\* Rtc::read_clock_mode
read_clock_mode(file) ==
    IF ~file.exists THEN ModeOk("Utc")
    ELSE IF ~file.readable THEN ModeErr
    ELSE IF Len(file.lines) < 3 THEN ModeErr
    ELSE LET mode_line == Trim(file.lines[3])
         IN  IF mode_line = <<"U", "T", "C">> THEN ModeOk("Utc")
             ELSE IF mode_line = <<"L", "O", "C", "A", "L">> THEN ModeOk("Local")
             ELSE ModeErr

\* The local time zone of the process (TZ or /etc/localtime), which chrono's
\* Local reads from its environment
VARIABLE zone

\* The clocks of the machine as clock_gettime gives them: [monotonic,
\* realtime, status].  chrono's Local reads the system time (SystemTime::now())
\* on every conversion, to decide whether its cached zone is still fresh.
VARIABLE clock

\* A zone without and a zone with daylight saving time
Zones == {"Etc/GMT-2", "Europe/Berlin"}

\* The day of the last Sunday of a month of 31 days (1970-01-01 was a Thursday)
LastSunday(y, m) ==
    LET sunday_on_or_before(last) == last - ((last + 4) % 7)
    IN  sunday_on_or_before(DaysFromCivil(y, m, 31))

\* The calendar times chrono's NaiveDateTime holds: the years -262143 to 262142
InChronoRange(t) ==
    /\ DaysFromCivil(-262143, 1, 1) <= t[1]
    /\ t[1] <= DaysFromCivil(262142, 12, 31)

\* The transitions of Europe/Berlin in the tz database up to 1995, each
\* <<day, second of the day (UTC), offset after it in seconds east>>: local
\* mean time (UTC+0:53:28) until 1893, summer time in 1916-1918 and 1940-1949
\* (UTC+3 in parts of 1945 and 1947), none in 1950-1979, and from 1980 to 1995
\* summer time from the last Sunday of March to the last Sunday of September.
BerlinTransitions ==
    << <<-28034, 83192, 3600>>, <<-19604, 79200, 7200>>,
       <<-19451, 82800, 3600>>, <<-19253, 3600, 7200>>,
       <<-19099, 3600, 3600>>, <<-18889, 3600, 7200>>, <<-18735, 3600, 3600>>,
       <<-10867, 3600, 7200>>, <<-9922, 3600, 3600>>, <<-9775, 3600, 7200>>,
       <<-9586, 3600, 3600>>, <<-9404, 3600, 7200>>, <<-9222, 3600, 3600>>,
       <<-9040, 3600, 7200>>, <<-8988, 0, 10800>>, <<-8865, 0, 7200>>,
       <<-8810, 3600, 3600>>, <<-8663, 3600, 7200>>, <<-8487, 3600, 3600>>,
       <<-8306, 7200, 7200>>, <<-8271, 3600, 10800>>, <<-8222, 0, 7200>>,
       <<-8124, 3600, 3600>>, <<-7928, 3600, 7200>>, <<-7760, 3600, 3600>>,
       <<-7571, 3600, 7200>>, <<-7396, 3600, 3600>>, <<3748, 3600, 7200>>,
       <<3923, 3600, 3600>>, <<4105, 3600, 7200>>, <<4287, 3600, 3600>>,
       <<4469, 3600, 7200>>, <<4651, 3600, 3600>>, <<4833, 3600, 7200>>,
       <<5015, 3600, 3600>>, <<5197, 3600, 7200>>, <<5386, 3600, 3600>>,
       <<5568, 3600, 7200>>, <<5750, 3600, 3600>>, <<5932, 3600, 7200>>,
       <<6114, 3600, 3600>>, <<6296, 3600, 7200>>, <<6478, 3600, 3600>>,
       <<6660, 3600, 7200>>, <<6842, 3600, 3600>>, <<7024, 3600, 7200>>,
       <<7206, 3600, 3600>>, <<7388, 3600, 7200>>, <<7577, 3600, 3600>>,
       <<7759, 3600, 7200>>, <<7941, 3600, 3600>>, <<8123, 3600, 7200>>,
       <<8305, 3600, 3600>>, <<8487, 3600, 7200>>, <<8669, 3600, 3600>>,
       <<8851, 3600, 7200>>, <<9033, 3600, 3600>>, <<9215, 3600, 7200>>,
       <<9397, 3600, 3600>> >>

\* A calendar time moved by whole seconds, its fraction kept
ShiftSecs(t, secs) ==
    <<t[1] + ((t[2] + secs) \div SecsPerDay), (t[2] + secs) % SecsPerDay, t[3]>>

\* The offset from UTC, in seconds east, that zone z has at a UTC instant:
\* the offset after the last transition at or before it.  Europe/Berlin since
\* 1996 (by the table of the tz database until 2037, by its rule after it):
\* UTC+2 from 01:00 UTC on the last Sunday of March to 01:00 UTC on the last
\* Sunday of October, else UTC+1.
UtcOffset(z, utc) ==
    IF z = "Etc/GMT-2" THEN 2 * 3600
    ELSE LET T == BerlinTransitions
             before == {i \in 1..Len(T) : TLeq(<<T[i][1], T[i][2], 0>>, utc)}
             last(S) == CHOOSE i \in S : \A j \in S : j <= i
             in_year(y) ==
                 IF y >= 1996
                 THEN IF /\ TLeq(<<LastSunday(y, 3), 3600, 0>>, utc)
                         /\ TLess(utc, <<LastSunday(y, 10), 3600, 0>>)
                      THEN 2 * 3600
                      ELSE 3600
                 ELSE IF before = {} THEN 3208
                 ELSE T[last(before)][3]
         IN  in_year(CivilFromDays(utc[1]).year)

\* Local.from_local_datetime(local): the offsets under which zone z shows the
\* calendar time `local`.  None for a time skipped when the clocks go forward,
\* two for a time repeated when they go back, else one.  chrono compares the
\* whole second of `local` with the local times at which a transition starts
\* (under the offset before it) and ends (under the offset after it): the
\* second at which the skipped hour starts still has the offset before, and
\* the second at which the repeated hour ends is still repeated.  It walks the
\* transitions in order and answers at the first one the time is not fully
\* after.  A time whose UTC instant would lie before the first instant chrono
\* holds has no offset either.
from_local_datetime(z, local) ==
    LET sec == <<local[1], local[2], 0>>
        rule(dst_start, dst_end) ==
            IF TLeq(sec, ShiftSecs(dst_start, 3600)) THEN {3600}
            ELSE IF TLess(sec, ShiftSecs(dst_start, 2 * 3600)) THEN {}
            ELSE IF TLess(sec, ShiftSecs(dst_end, 3600)) THEN {2 * 3600}
            ELSE IF TLeq(sec, ShiftSecs(dst_end, 2 * 3600)) THEN {3600, 2 * 3600}
            ELSE {3600}
        by_rule(y) ==
            IF y < 1996 THEN {3600}
            ELSE rule(<<LastSunday(y, 3), 3600, 0>>, <<LastSunday(y, 10), 3600, 0>>)
        T == BerlinTransitions
        prev(i) == IF i = 1 THEN 3208 ELSE T[i - 1][3]
        transition_start(i) == ShiftSecs(<<T[i][1], T[i][2], 0>>, prev(i))
        transition_end(i) == ShiftSecs(<<T[i][1], T[i][2], 0>>, T[i][3])
        not_after == {i \in 1..Len(T) : \/ TLeq(sec, transition_start(i))
                                        \/ TLeq(sec, transition_end(i))}
        at_transition(i) ==
            IF prev(i) > T[i][3]
            THEN IF TLess(sec, transition_end(i)) THEN {prev(i)}
                 ELSE {prev(i), T[i][3]}
            ELSE IF TLeq(sec, transition_start(i)) THEN {prev(i)}
                 ELSE IF TLess(sec, transition_end(i)) THEN {}
                 ELSE {T[i][3]}
        first(S) == CHOOSE i \in S : \A j \in S : i <= j
        by_table ==
            IF not_after = {} THEN by_rule(CivilFromDays(local[1]).year)
            ELSE at_transition(first(not_after))
        in_range(offsets) ==
            IF \E o \in offsets : ~InChronoRange(ShiftSecs(local, 0 - o))
            THEN {}
            ELSE offsets
    IN  in_range(IF z = "Etc/GMT-2" THEN {2 * 3600} ELSE by_table)

\* ClockMode::to_datetime: hardware calendar time to a UTC instant,
\* Ok(instant).  For Local the system time is read first (a clock_gettime
\* that fails panics) and the LocalResult is unwrapped: a calendar time that
\* does not exist in the zone, or exists twice, panics.
to_datetime(mode, hardware_time) ==
    IF mode = "Utc" THEN Ok(hardware_time)
    ELSE IF clock.status # 0 THEN Panic
    ELSE LET offsets == from_local_datetime(zone, hardware_time)
         IN  IF Cardinality(offsets) = 1
             THEN Ok(ShiftSecs(hardware_time, 0 - (CHOOSE o \in offsets : TRUE)))
             ELSE Panic

\* ClockMode::to_hardware: UTC instant to hardware calendar time,
\* Ok(calendar time).  For Local the system time is read first (a
\* clock_gettime that fails panics), and naive_local() panics when the local
\* time lies after the last calendar time chrono holds.
to_hardware(mode, dt) ==
    IF mode = "Utc" THEN Ok(dt)
    ELSE IF clock.status # 0 THEN Panic
    ELSE LET naive_local(local) == IF InChronoRange(local) THEN Ok(local) ELSE Panic
         IN  naive_local(ShiftSecs(dt, UtcOffset(zone, dt)))

---------------------------------------------------------------------------
(* scheduler/main.rs: set_wake_alarm.  The outcome is                       *)
(*   res "ok" | "err" | "panic", ops the RTC system calls issued in order   *)
(*   ("open", "read", "write"), alarm the alarm the RTC holds afterwards.   *)

AlarmOutcome(res, ops, alarm) == [res |-> res, ops |-> ops, alarm |-> alarm]

\* set_wake_alarm comparing the target with the time of the alarm it finds
\* whether that alarm is enabled or not
new_alarm_config_stale(alarm_config, clock_mode, alarm_time) ==
    LET time == to_chrono(alarm_config.time)
        current_alarm == to_datetime(clock_mode, time.val)
        with_time(config, target) ==
            IF target.tag = "panic" THEN Panic ELSE Ok(set_time(config, target.val))
    IN  IF time.tag = "panic" \/ current_alarm.tag = "panic" THEN Panic
        ELSE IF TLess(current_alarm.val, alarm_time)
        THEN Ok(set_enabled(alarm_config, TRUE))
        ELSE with_time(set_enabled(alarm_config, TRUE),
                       to_hardware(clock_mode, alarm_time))

\* The configuration set_wake_alarm hands to RTC_WKALRM_SET, Ok(config), or
\* the panic of a conversion: of the time of an enabled alarm, or of the
\* target when it is to be written.
new_alarm_config(alarm_config, clock_mode, alarm_time) ==
    LET with_time(config, target) ==
            IF target.tag = "panic" THEN Panic ELSE Ok(set_time(config, target.val))
    IN  IF enabled(alarm_config)
        THEN LET time == to_chrono(alarm_config.time)
                 current_alarm == to_datetime(clock_mode, time.val)
             IN  IF time.tag = "panic" \/ current_alarm.tag = "panic" THEN Panic
                 ELSE IF TLess(current_alarm.val, alarm_time)
                 THEN Ok(alarm_config)
                 ELSE with_time(alarm_config, to_hardware(clock_mode, alarm_time))
        ELSE with_time(set_enabled(alarm_config, TRUE),
                       to_hardware(clock_mode, alarm_time))

\* set_wake_alarm(logger, alarm_time) on a machine whose /dev/rtc0 is present
\* or not, holds `hw`, and whose two ioctls succeed or fail as rdOk / wrOk say.
set_wake_alarm(alarm_time, present, adj, hw, rdOk, wrOk) ==
    IF ~present THEN AlarmOutcome("err", <<"open">>, hw)
    ELSE
    LET clock_mode == read_clock_mode(adj)
    IN  IF clock_mode.tag = "err" THEN AlarmOutcome("err", <<"open">>, hw)
        ELSE IF ~rdOk THEN AlarmOutcome("err", <<"open", "read">>, hw)
        ELSE
        LET config == new_alarm_config(hw, clock_mode.mode, alarm_time)
        IN  IF config.tag = "panic" THEN AlarmOutcome("panic", <<"open", "read">>, hw)
            ELSE IF ~wrOk THEN AlarmOutcome("err", <<"open", "read", "write">>, hw)
            ELSE AlarmOutcome("ok", <<"open", "read", "write">>, config.val)

\* The callback programming the epoch when no timer gave an activation
program_rtc_always(alarm_time, present, adj, hw, rdOk, wrOk) ==
    set_wake_alarm(alarm_time.val, present, adj, hw, rdOk, wrOk)

\* The callback unwrapping the result of set_wake_alarm
program_rtc_unwrap(alarm_time, present, adj, hw, rdOk, wrOk) ==
    LET o == IF alarm_time.tag = "ok"
             THEN set_wake_alarm(alarm_time.val, present, adj, hw, rdOk, wrOk)
             ELSE AlarmOutcome("skipped", <<>>, hw)
    IN  IF o.res = "err" THEN AlarmOutcome("panic", o.ops, o.alarm) ELSE o

\* The callback leaving the RTC alone whatever the target
program_rtc_never(alarm_time, present, adj, hw, rdOk, wrOk) ==
    AlarmOutcome("skipped", <<>>, hw)

\* What the PreShutdown callback does with alarm_time: nothing for None
\* (res "skipped"), set_wake_alarm for Some(alarm_time).
program_rtc(alarm_time, present, adj, hw, rdOk, wrOk) ==
    IF alarm_time.tag = "ok"
    THEN set_wake_alarm(alarm_time.val, present, adj, hw, rdOk, wrOk)
    ELSE AlarmOutcome("skipped", <<>>, hw)

---------------------------------------------------------------------------
(* scheduler/power_monitor.rs: the inhibitor lock.  `inhibitor` is the      *)
(* monitor's Option<OwnedFd> (0 for None, else the fd), `fds` the inhibitor *)
(* fds the process has open, `inhibits` the Inhibit calls issued so far     *)
(* (the n-th call, when it succeeds, returns fd n), `closes` the fds closed.*)

LockState(inh, open, calls, closed) ==
    [inhibitor |-> inh, fds |-> open, inhibits |-> calls, closes |-> closed]

\* take_inhibitor without the `Some(fd) => Some(fd)` arm: Inhibit is called
\* every time and the fd held before is dropped.
take_inhibitor_no_guard(l, ok) ==
    IF ok
    THEN [res |-> "ok",
          lock |-> LockState(l.inhibits + 1,
                             (l.fds \ {l.inhibitor}) \cup {l.inhibits + 1},
                             l.inhibits + 1,
                             l.closes + (IF l.inhibitor # 0 THEN 1 ELSE 0))]
    ELSE [res |-> "err",
          lock |-> LockState(0, l.fds \ {l.inhibitor}, l.inhibits + 1,
                             l.closes + (IF l.inhibitor # 0 THEN 1 ELSE 0))]

\* take_inhibitor without its final `inhibitor.set(new_inhibitor)`: the fd
\* taken out of the cell, or just acquired, is dropped at the end of the call.
take_inhibitor_no_set(l, ok) ==
    IF l.inhibitor # 0
    THEN [res |-> "ok",
          lock |-> LockState(0, l.fds \ {l.inhibitor}, l.inhibits, l.closes + 1)]
    ELSE IF ok
         THEN [res |-> "ok",
               lock |-> LockState(0, l.fds, l.inhibits + 1, l.closes + 1)]
         ELSE [res |-> "err",
               lock |-> LockState(0, l.fds, l.inhibits + 1, l.closes)]

\* PowerMonitor::take_inhibitor; ok is the outcome of the Inhibit call, if
\* one is made.  Returns the result and the lock state.
take_inhibitor(l, ok) ==
    IF l.inhibitor # 0
    THEN [res |-> "ok", lock |-> l]
    ELSE IF ok
         THEN [res |-> "ok",
               lock |-> LockState(l.inhibits + 1, l.fds \cup {l.inhibits + 1},
                                  l.inhibits + 1, l.closes)]
         ELSE [res |-> "err",
               lock |-> LockState(0, l.fds, l.inhibits + 1, l.closes)]

\* release_inhibitor that looks at the Option without taking it
release_inhibitor_keep(l) == l

\* PowerMonitor::release_inhibitor: the Option is taken and the OwnedFd, if
\* there was one, dropped, which closes it.
release_inhibitor(l) ==
    IF l.inhibitor # 0
    THEN LockState(0, l.fds \ {l.inhibitor}, l.inhibits, l.closes + 1)
    ELSE l

\* The steps of a signal matcher's closure, in program order.
Step(op, ev) == [op |-> op, ev |-> ev]

\* The closures releasing the lock before they call the callback
handler_release_first(name, arg) ==
    IF name = "PrepareForSleep"
    THEN IF arg
         THEN <<Step("release", "none"), Step("callback", "PreSleep")>>
         ELSE <<Step("callback", "PostSleep"), Step("take", "none")>>
    ELSE IF arg
         THEN <<Step("release", "none"), Step("callback", "PreShutdown")>>
         ELSE <<>>

\* The PrepareForShutdown closure written like the PrepareForSleep one
handler_mirror(name, arg) ==
    IF arg
    THEN <<Step("callback", IF name = "PrepareForSleep" THEN "PreSleep" ELSE "PreShutdown"),
           Step("release", "none")>>
    ELSE <<Step("callback", "PostSleep"), Step("take", "none")>>

\* The closures taking the lock again after every Pre event as well
handler_retake(name, arg) ==
    IF name = "PrepareForSleep"
    THEN IF arg
         THEN <<Step("callback", "PreSleep"), Step("release", "none"),
                Step("take", "none")>>
         ELSE <<Step("callback", "PostSleep"), Step("take", "none")>>
    ELSE IF arg
         THEN <<Step("callback", "PreShutdown"), Step("release", "none"),
                Step("take", "none")>>
         ELSE <<>>

\* register_signal_matchers: the closure run for PrepareForSleep(arg) and
\* PrepareForShutdown(arg)
handler(name, arg) ==
    IF name = "PrepareForSleep"
    THEN IF arg
         THEN <<Step("callback", "PreSleep"), Step("release", "none")>>
         ELSE <<Step("callback", "PostSleep"), Step("take", "none")>>
    ELSE IF arg
         THEN <<Step("callback", "PreShutdown"), Step("release", "none")>>
         ELSE <<>>

---------------------------------------------------------------------------
(* State *)

VARIABLES
    pc,             \* scheduler process: "start", "run", "exited" (main returned
                    \* an error), "crashed" (a panic unwound it), "exit0"
                    \* (main returned Ok), "killed" (by a signal)
    todo,           \* the steps the running signal closure has still to take
    hist,           \* the signals received so far, in order, each with the
                    \* lock state it found
    events,         \* the PowerEvents handed to the callback, in order
    inhibitor,      \* PowerMonitor.inhibitor: 0 for None, else the fd
    fds,            \* inhibitor fds the process has open
    inhibits,       \* Inhibit calls issued
    closes,         \* inhibitor fds closed
    lockOp,         \* the last lock operation: "none", "take_ok", "take_err", "release"
    timers,         \* what each timer unit answers to the two property reads
    overflowChecks, \* whether the build checks integer overflow
    alarm_time,     \* alarm_time of the last PreShutdown callback (tag "unset" before)
    rtcPresent,     \* whether /dev/rtc0 can be opened
    adjtime,        \* /etc/adjtime
    rtc,            \* the alarm the RTC holds
    rtcPrev,        \* the alarm the RTC held when set_wake_alarm was last entered
    rtcOps,         \* RTC system calls issued by the last PreShutdown callback
    rtcRes,         \* how its set_wake_alarm ended ("unset" before, "skipped" if not called)
    resume_file,    \* the resume-timestamp file: "absent", "empty" or the ms written
    resumed,        \* Utc::now() of the most recent PostSleep callback (tag "unset" before)
    shutdown,       \* the SIGTERM flag: "unset", "set_waiting" (set while conn.process
                    \* waits: that slice may still dispatch a message) or "set"
    ticks,          \* how often the clocks have been moved forward
    rpc,            \* runner process: "idle" (not started), "run", "ok" (exit 0),
                    \* "failed" (main returned an error), "panicked"
    rtodo,          \* the steps the runner's main has still to take
    start_time,     \* the runner's start_time (tag "unset" before)
    uptime,         \* what sysinfo() answered the runner (tag "unset" before)
    should_shutdown,\* the runner's should_shutdown
    unit,           \* the runner's unit argument ("" before)
    calls,          \* the D-Bus method calls the runner has issued, in order
    matched,        \* whether the runner's JobRemoved match is registered
    started,        \* the runner's `started` flag
    job,            \* the job StartUnit returned to the runner ("none" before)
    jobs,           \* the JobRemoved signals dispatched to the runner, in order
    fn,             \* the function a unit check applies first ("none" outside one)
    input,          \* the input the check hands it
    output          \* what the functions applied so far returned, in order

lockVars == <<inhibitor, fds, inhibits, closes, lockOp>>
envVars == <<timers, clock, overflowChecks, rtcPresent, adjtime, zone>>
rtcVars == <<rtc, rtcPrev, rtcOps, rtcRes>>
runnerVars == <<rpc, rtodo, start_time, uptime, should_shutdown, unit, calls,
                matched, started, job, jobs>>
fnVars == <<fn, input, output>>
vars == <<pc, todo, hist, events, inhibitor, fds, inhibits, closes, lockOp,
          timers, clock, overflowChecks, alarm_time, rtcPresent, adjtime,
          rtc, rtcPrev, rtcOps, rtcRes, resume_file, resumed, shutdown, ticks,
          rpc, rtodo, start_time, uptime, should_shutdown, unit, calls,
          matched, started, job, jobs, fn, input, output, zone>>

Lock == LockState(inhibitor, fds, inhibits, closes)

---------------------------------------------------------------------------
(* Bounds and input sets *)

\* Signals one run of the scheduler receives
MaxSignals == 4

Unset == [tag |-> "unset", val |-> Zero]

\* NextElapseUSecRealtime values: none, 2030-01-01T00:00:00.5Z,
\* 2031-01-01T00:00:00Z, and USEC_INFINITY
RealtimeA == <<21915, 0, 500000>>
RealtimeB == <<22280, 0, 0>>
RealtimeValues == {Zero, RealtimeA, RealtimeB, U64Max}

\* NextElapseUSecMonotonic values: none, 100 s after boot, 2 days 1 h after
\* boot, and USEC_INFINITY
MonotonicA == <<0, 100, 0>>
MonotonicB == <<2, 3600, 250000>>
MonotonicValues == {Zero, MonotonicA, MonotonicB, U64Max}

\* One day after boot, at 2029-12-31T12:00:00Z: MonotonicA converts to a
\* realtime instant before RealtimeA, MonotonicB to one between RealtimeA
\* and RealtimeB.
\* `status` is what libc::clock_gettime returns.
Clocks == {[monotonic |-> <<1, 0, 123>>, realtime |-> <<21914, 43200, 456>>,
            status |-> 0]}

\* Clocks Utc::now() cannot read: clock_gettime returns -1, or the realtime
\* clock stands at 1969-12-31T23:59:59.999999Z
BrokenClocks ==
    { [monotonic |-> <<1, 0, 123>>, realtime |-> <<21914, 43200, 456>>,
       status |-> -1],
      [monotonic |-> <<1, 0, 123>>, realtime |-> <<-1, 86399, 999999000>>,
       status |-> 0] }

QueryResults(values) == {Err} \cup {Ok(v) : v \in values}

TimerReports ==
    {TimerReport(rt, mono) : rt \in QueryResults(RealtimeValues),
                             mono \in QueryResults(MonotonicValues)}

Silent == TimerReport(Ok(Zero), Ok(Zero))

\* The timer answers the scheduler runs are explored with
SchedulerTimers ==
    { <<Silent, TimerReport(Err, Ok(MonotonicB))>>,
      <<TimerReport(Ok(RealtimeB), Ok(Zero)), TimerReport(Ok(Zero), Ok(MonotonicB))>>,
      <<TimerReport(Ok(RealtimeA), Err), TimerReport(Ok(RealtimeB), Ok(Zero))>>,
      <<TimerReport(Ok(RealtimeA), Ok(Zero)), TimerReport(Ok(U64Max), Ok(Zero))>> }

AdjLine1 == <<"0", ".", "0", " ", "0", " ", "0", ".", "0">>
AdjLine2 == <<"0">>
AdjFile(lines) == [exists |-> TRUE, readable |-> TRUE, lines |-> lines]
AdjAbsent == [exists |-> FALSE, readable |-> FALSE, lines |-> <<>>]
AdjUtc == AdjFile(<<AdjLine1, AdjLine2, <<"U", "T", "C">>>>)
AdjLocal == AdjFile(<<AdjLine1, AdjLine2, <<"L", "O", "C", "A", "L", "\r">>>>)
AdjShort == AdjFile(<<AdjLine1, AdjLine2>>)
AdjOther == AdjFile(<<AdjLine1, AdjLine2, <<"u", "t", "c">>>>)
AdjUnreadable == [exists |-> TRUE, readable |-> FALSE, lines |-> <<>>]
AdjtimeFiles == {AdjAbsent, AdjUtc, AdjLocal, AdjShort, AdjOther, AdjUnreadable}

\* Alarms the RTC may hold: disabled with a stale time (2000-01-01), and
\* enabled at 2030-01-01T00:00:00, 2030-01-01T02:00:00, 2030-06-01T12:30:00,
\* inside the leap second 2030-12-31T23:59:60, at 2030-03-31T02:00:00 and
\* 02:30:00 (the second at which Europe/Berlin starts to skip an hour, and a
\* time inside that hour), at 2030-10-27T02:30:00 and 03:00:00 (a time inside
\* the hour Europe/Berlin repeats, and the second at which that hour ends),
\* in the first year chrono has no date for (262143) and a later one, in the
\* first and in the last hour chrono has dates for (-262143-01-01T00:30:00 and
\* 262142-12-31T23:30:00), and at noon of 1985-10-10 and of 1947-06-01 (when
\* Europe/Berlin was at UTC+1 and at UTC+3).
RtcAlarms ==
    { RtcWakeAlarm(0, 0, RtcTime(0, 0, 0, 1, 0, 100)),
      RtcWakeAlarm(1, 0, RtcTime(0, 0, 0, 1, 0, 130)),
      RtcWakeAlarm(1, 0, RtcTime(0, 0, 2, 1, 0, 130)),
      RtcWakeAlarm(1, 0, RtcTime(0, 30, 12, 1, 5, 130)),
      RtcWakeAlarm(1, 1, RtcTime(60, 59, 23, 31, 11, 130)),
      RtcWakeAlarm(1, 0, RtcTime(0, 0, 2, 31, 2, 130)),
      RtcWakeAlarm(1, 0, RtcTime(0, 30, 2, 31, 2, 130)),
      RtcWakeAlarm(1, 0, RtcTime(0, 30, 2, 27, 9, 130)),
      RtcWakeAlarm(1, 0, RtcTime(0, 0, 3, 27, 9, 130)),
      RtcWakeAlarm(1, 0, RtcTime(59, 59, 23, 31, 11, 260243)),
      RtcWakeAlarm(1, 0, RtcTime(0, 0, 0, 1, 0, 1000000)),
      RtcWakeAlarm(1, 0, RtcTime(0, 30, 0, 1, 0, -264043)),
      RtcWakeAlarm(1, 0, RtcTime(0, 30, 23, 31, 11, 260242)),
      RtcWakeAlarm(1, 0, RtcTime(0, 0, 12, 10, 9, 85)),
      RtcWakeAlarm(1, 0, RtcTime(0, 0, 12, 1, 5, 47)) }

\* The RTC alarms and /etc/adjtime files the scheduler runs are explored with
SchedulerAlarms ==
    { RtcWakeAlarm(0, 0, RtcTime(0, 0, 0, 1, 0, 100)),
      RtcWakeAlarm(1, 0, RtcTime(0, 30, 12, 1, 5, 130)) }
SchedulerAdjtimes == {AdjAbsent, AdjShort}

SignalNames == {"PrepareForSleep", "PrepareForShutdown"}
\* A received signal, with the lock state it found
Signal(name, arg, l) ==
    [name |-> name, arg |-> arg, fd |-> l.inhibitor,
     inhibits |-> l.inhibits, closes |-> l.closes]

---------------------------------------------------------------------------
(* scheduler/main.rs: update_resume_timestamp *)

\* timestamp.timestamp_millis() as <<days, second of the day, millisecond>>
timestamp_millis(t) == <<t[1], t[2], t[3] \div (1000 * 1000)>>

\* update_resume_timestamp writing whole seconds
update_resume_timestamp_seconds(file, now, created, written) ==
    IF ~created THEN file
    ELSE IF ~written THEN [tag |-> "empty", val |-> Zero]
    ELSE [tag |-> "ms", val |-> <<now[1], now[2], 0>>]

\* The file after update_resume_timestamp at `now`: File::create fails (the
\* file is left as it was), or truncates, and then the write fails or not.
update_resume_timestamp(file, now, created, written) ==
    IF ~created THEN file
    ELSE IF ~written THEN [tag |-> "empty", val |-> Zero]
    ELSE [tag |-> "ms", val |-> timestamp_millis(now)]

---------------------------------------------------------------------------
(* The scheduler process *)

\* The runner before the unit manager invokes it
RunnerNotStarted ==
    /\ rpc = "idle"
    /\ rtodo = <<>>
    /\ start_time = Unset
    /\ uptime = Unset
    /\ should_shutdown = FALSE
    /\ unit = ""
    /\ calls = <<>>
    /\ matched = FALSE
    /\ started = FALSE
    /\ job = "none"
    /\ jobs = <<>>

\* No function under a unit check
NoConversion ==
    /\ fn = "none"
    /\ input = Zero
    /\ output = <<>>

\* The scheduler before run_blocking
InitScheduler ==
    /\ pc = "start"
    /\ todo = <<>>
    /\ hist = <<>>
    /\ events = <<>>
    /\ inhibitor = 0
    /\ fds = {}
    /\ inhibits = 0
    /\ closes = 0
    /\ lockOp = "none"
    /\ timers \in SchedulerTimers
    /\ clock \in Clocks
    /\ overflowChecks \in BOOLEAN
    /\ alarm_time = Unset
    /\ rtcPresent \in BOOLEAN
    /\ adjtime \in SchedulerAdjtimes
    /\ zone = "Etc/GMT-2"
    /\ rtc \in SchedulerAlarms
    /\ rtcPrev = rtc
    /\ rtcOps = <<>>
    /\ rtcRes = "unset"
    /\ resume_file = [tag |-> "absent", val |-> Zero]
    /\ resumed = Unset
    /\ shutdown = "unset"
    /\ ticks = 0

Init == InitScheduler /\ RunnerNotStarted /\ NoConversion

SetLock(l) ==
    /\ inhibitor' = l.inhibitor
    /\ fds' = l.fds
    /\ inhibits' = l.inhibits
    /\ closes' = l.closes

\* The process ends: every fd it holds is closed.
Teardown ==
    /\ inhibitor' = 0
    /\ fds' = {}
    /\ inhibits' = inhibits
    /\ closes' = closes + Cardinality(fds)
    /\ lockOp' = lockOp

Running == pc = "run"
Idle == pc = "run" /\ todo = <<>>
NextStep(op) == pc = "run" /\ todo # <<>> /\ Head(todo).op = op
NextEvent(ev) == NextStep("callback") /\ Head(todo).ev = ev

\* run_blocking up to its loop: the matchers are registered and the first
\* lock taken; a failed Inhibit makes it return the error.
Start ==
    /\ pc = "start"
    /\ \E ok \in BOOLEAN :
          LET r == take_inhibitor(Lock, ok)
          IN  /\ SetLock(r.lock)
              /\ lockOp' = IF r.res = "ok" THEN "take_ok" ELSE "take_err"
              /\ pc' = IF r.res = "ok" THEN "run" ELSE "exited"
    /\ UNCHANGED <<todo, hist, events, envVars, alarm_time, rtcVars, resume_file>>
    /\ UNCHANGED <<resumed, shutdown, ticks, runnerVars, fnVars>>

\* main's driver loop running on whatever the flag says
loop_forever(flag) == TRUE

\* main's `while !shutdown.load(..)`: whether conn.process may still dispatch
\* a message.  A slice that was waiting when the flag was set still may.
loop_continues(flag) == flag # "set"

\* conn.process(..) dispatches a login-manager signal to its closure.
\* PrepareForShutdown(false) only logs: its closure has no step to take.
ReceiveSignal(name, arg) ==
    /\ Idle
    /\ loop_continues(shutdown)
    /\ Len(hist) < MaxSignals
    /\ hist' = Append(hist, Signal(name, arg, Lock))
    /\ todo' = handler(name, arg)
    /\ shutdown' = IF shutdown = "unset" THEN "unset" ELSE "set"
    /\ UNCHANGED <<pc, events, lockVars, envVars, alarm_time, rtcVars, resume_file>>
    /\ UNCHANGED <<resumed, ticks, runnerVars, fnVars>>

Receive == \E name \in SignalNames, arg \in BOOLEAN : ReceiveSignal(name, arg)

\* cb(PowerEvent::PreSleep): the callback's `_ => ()` arm
CallbackPreSleep ==
    /\ NextEvent("PreSleep")
    /\ events' = Append(events, "PreSleep")
    /\ todo' = Tail(todo)
    /\ UNCHANGED <<pc, hist, lockVars, envVars, alarm_time, rtcVars, resume_file>>
    /\ UNCHANGED <<resumed, shutdown, ticks, runnerVars, fnVars>>

\* cb(PowerEvent::PostSleep) up to File::create: update_resume_timestamp
\* begins with Utc::now(): on a clock it cannot read it panics before the
\* file is touched, and the panic unwinds out of the closure, conn.process
\* and main.  Then File::create truncates the
\* file, or fails: the error is logged and the callback has returned.  The
\* write is a system call of its own: until it is issued the file is empty
\* for whoever reads it.
CallbackPostSleep ==
    /\ NextEvent("PostSleep")
    /\ events' = Append(events, "PostSleep")
    /\ IF utc_now(clock).tag = "panic"
       THEN /\ pc' = "crashed"
            /\ todo' = todo
            /\ Teardown
            /\ UNCHANGED <<resume_file, resumed>>
       ELSE /\ \E created \in BOOLEAN :
                  /\ resume_file' = update_resume_timestamp(resume_file, clock.realtime,
                                                            created, FALSE)
                  /\ todo' = IF created
                             THEN <<Step("write", "PostSleep")>> \o Tail(todo)
                             ELSE Tail(todo)
            /\ resumed' = utc_now(clock)
            /\ pc' = pc
            /\ UNCHANGED lockVars
    /\ UNCHANGED <<hist, envVars, alarm_time, rtcVars>>
    /\ UNCHANGED <<shutdown, ticks, runnerVars, fnVars>>

\* The write! of update_resume_timestamp, with the timestamp Utc::now() gave:
\* the file holds its millisecond count, or the write fails and the file
\* stays empty; the error is logged and the callback returns.
WriteResumeTimestamp ==
    /\ NextStep("write")
    /\ \E written \in BOOLEAN :
          resume_file' = update_resume_timestamp(resume_file, resumed.val, TRUE, written)
    /\ todo' = Tail(todo)
    /\ UNCHANGED <<pc, hist, events, lockVars, envVars, alarm_time, rtcVars>>
    /\ UNCHANGED <<resumed, shutdown, ticks, runnerVars, fnVars>>

\* cb(PowerEvent::PreShutdown): the earliest activation is folded out of the
\* timer units and, if there is one, the RTC programmed; an error is logged.
\* A panic unwinds out of the closure, conn.process and main.
CallbackPreShutdown ==
    /\ NextEvent("PreShutdown")
    /\ events' = Append(events, "PreShutdown")
    /\ alarm_time' = alarm_time_of(timers, clock, overflowChecks)
    /\ \E rdOk, wrOk \in BOOLEAN :
          LET o == program_rtc(alarm_time', rtcPresent, adjtime, rtc, rdOk, wrOk)
          IN  /\ rtcPrev' = rtc
              /\ rtc' = o.alarm
              /\ rtcOps' = o.ops
              /\ rtcRes' = o.res
              /\ IF alarm_time'.tag = "panic" \/ o.res = "panic"
                 THEN pc' = "crashed" /\ todo' = todo /\ Teardown
                 ELSE pc' = pc /\ todo' = Tail(todo) /\ UNCHANGED lockVars
    /\ UNCHANGED <<hist, envVars, resume_file>>
    /\ UNCHANGED <<resumed, shutdown, ticks, runnerVars, fnVars>>

\* monitor.release_inhibitor() after a Pre event's callback; an error is logged
Release ==
    /\ NextStep("release")
    /\ SetLock(release_inhibitor(Lock))
    /\ lockOp' = "release"
    /\ todo' = Tail(todo)
    /\ UNCHANGED <<pc, hist, events, envVars, alarm_time, rtcVars, resume_file>>
    /\ UNCHANGED <<resumed, shutdown, ticks, runnerVars, fnVars>>

\* monitor.take_inhibitor(c) after the PostSleep callback; an error is logged
Take ==
    /\ NextStep("take")
    /\ \E ok \in BOOLEAN :
          LET r == take_inhibitor(Lock, ok)
          IN  /\ SetLock(r.lock)
              /\ lockOp' = IF r.res = "ok" THEN "take_ok" ELSE "take_err"
    /\ todo' = Tail(todo)
    /\ UNCHANGED <<pc, hist, events, envVars, alarm_time, rtcVars, resume_file>>
    /\ UNCHANGED <<resumed, shutdown, ticks, runnerVars, fnVars>>

\* conn.process(..)? fails: run_blocking and main return the error, the
\* process ends and the fd it holds is closed
BusError ==
    /\ Idle
    /\ loop_continues(shutdown)
    /\ pc' = "exited"
    /\ Teardown
    /\ UNCHANGED <<todo, hist, events, envVars, alarm_time, rtcVars, resume_file,
                   resumed, shutdown, ticks, runnerVars, fnVars>>

Next ==
    \/ Start
    \/ Receive
    \/ CallbackPreSleep
    \/ CallbackPostSleep
    \/ WriteResumeTimestamp
    \/ CallbackPreShutdown
    \/ Release
    \/ Take
    \/ BusError

Spec == Init /\ [][Next]_vars

---------------------------------------------------------------------------
(* Properties of the power monitor (Spec) *)

Last(s) == s[Len(s)]

IsSignal(sig, name, arg) == sig.name = name /\ sig.arg = arg

\* The event a Pre signal hands to the callback
PreEventOf(sig) == IF sig.name = "PrepareForSleep" THEN "PreSleep" ELSE "PreShutdown"

\* The signals received so far that hand an event to the callback
Delivering == {i \in 1..Len(hist) : ~IsSignal(hist[i], "PrepareForShutdown", FALSE)}

\* C1: while the scheduler runs, an inhibitor fd is closed only by the
\* release step of a PrepareForSleep(true) or PrepareForShutdown(true)
\* closure, and only once the callback has returned from the Pre event of
\* that very signal: the event is the last one delivered, every signal
\* that delivers an event has delivered it, and no callback step is pending.
ReleaseAfterPreCallback ==
    [][ (pc' = "run" /\ (closes' # closes \/ ~(fds \subseteq fds')))
        => /\ NextStep("release")
           /\ Last(hist).arg
           /\ events # <<>>
           /\ Last(events) = PreEventOf(Last(hist))
           /\ Len(events) = Cardinality(Delivering)
           /\ \A i \in 1..Len(todo) : todo[i].op # "callback" ]_vars

\* C1 witness: a sleep and a shutdown have both been through callback and release
ReleasedAfterBothPreEvents ==
    /\ Idle
    /\ closes = 2
    /\ lockOp = "release"
    /\ Last(events) = "PreShutdown"
    /\ \E i \in 1..Len(events) : events[i] = "PreSleep"

\* Idle-Held: waiting for a signal, the last lock operation a take that succeeded
IdleHeld == Idle /\ lockOp = "take_ok"

\* C2: whatever signals arrived and however the Inhibit calls ended, the
\* process has at most one inhibitor fd open, it is the one the monitor
\* holds, and in Idle-Held it has exactly one.
AtMostOneInhibitorFd ==
    /\ Cardinality(fds) <= 1
    /\ fds = IF inhibitor = 0 THEN {} ELSE {inhibitor}
    /\ IdleHeld => Cardinality(fds) = 1

\* C2 witness: Idle-Held again after a lock was released and a later Inhibit failed
IdleHeldAfterFailedInhibit ==
    /\ IdleHeld
    /\ closes >= 1
    /\ inhibits >= 3
    /\ inhibitor = inhibits

\* A sleep cycle entered in Idle-Held: the last two signals are
\* PrepareForSleep(true), received with a lock held, and PrepareForSleep(false).
CycleEntered ==
    /\ Len(hist) >= 2
    /\ IsSignal(hist[Len(hist) - 1], "PrepareForSleep", TRUE)
    /\ hist[Len(hist) - 1].fd # 0
    /\ IsSignal(Last(hist), "PrepareForSleep", FALSE)

\* The first half of a sleep cycle: no fd is held from the moment
\* PrepareForSleep(true) is handled until PrepareForSleep(false) is, and the
\* fd held before was closed exactly once.
ZeroFdsWhileAsleep ==
    /\ (/\ Idle /\ hist # <<>>
        /\ IsSignal(Last(hist), "PrepareForSleep", TRUE) /\ Last(hist).fd # 0)
       => fds = {} /\ inhibitor = 0 /\ closes = Last(hist).closes + 1
    /\ (Running /\ CycleEntered /\ todo # <<>>)
       => fds = {} /\ inhibitor = 0 /\ closes = Last(hist).closes
                   /\ inhibits = Last(hist).inhibits

\* C3 as stated: after the PrepareForSleep(false) of the cycle is handled the
\* monitor holds exactly one fd, acquired after the one it released.
SleepCycleBackInIdleHeld ==
    /\ ZeroFdsWhileAsleep
    /\ (Idle /\ CycleEntered)
       => /\ inhibitor # 0
          /\ fds = {inhibitor}
          /\ inhibitor # hist[Len(hist) - 1].fd

\* C3: through a sleep cycle entered in Idle-Held no fd is held between the
\* two signals and the old fd is closed exactly once; handling
\* PrepareForSleep(false) issues exactly one Inhibit call, and the monitor
\* then holds exactly one, newly acquired, fd if the call succeeded and no
\* fd if it failed.
SleepCycleOneInhibitCall ==
    /\ ZeroFdsWhileAsleep
    /\ (Idle /\ CycleEntered)
       => /\ inhibits = Last(hist).inhibits + 1
          /\ closes = Last(hist).closes
          /\ lockOp \in {"take_ok", "take_err"}
          /\ lockOp = "take_ok"
             => inhibitor = inhibits /\ fds = {inhibitor}
                                     /\ inhibitor # hist[Len(hist) - 1].fd
          /\ lockOp = "take_err" => inhibitor = 0 /\ fds = {}

\* C3 witness: a completed sleep cycle that ended with a new fd
SleepCycleCompleted ==
    /\ Idle /\ CycleEntered
    /\ lockOp = "take_ok"
    /\ fds = {inhibitor}
    /\ inhibitor > hist[Len(hist) - 1].fd
    /\ closes = 1

\* The last two signals received are both PrepareForSleep(arg)
TwoInARow(arg) ==
    /\ Len(hist) >= 2
    /\ IsSignal(hist[Len(hist) - 1], "PrepareForSleep", arg)
    /\ IsSignal(Last(hist), "PrepareForSleep", arg)

\* take_inhibitor with a lock held, as PrepareForSleep(false) runs it: no
\* Inhibit call, the fd kept, nothing closed
TakeIsNoOpWhenHeld ==
    (Idle /\ hist # <<>> /\ IsSignal(Last(hist), "PrepareForSleep", FALSE)
          /\ Last(hist).fd # 0)
    => /\ inhibitor = Last(hist).fd
       /\ fds = {inhibitor}
       /\ inhibits = Last(hist).inhibits
       /\ closes = Last(hist).closes

\* Two PrepareForSleep(true) in a row leave the lock as the first one left it
SecondPreSleepChangesNothing ==
    (Idle /\ TwoInARow(TRUE))
    => /\ Last(hist).fd = 0
       /\ inhibitor = 0
       /\ fds = {}
       /\ inhibits = Last(hist).inhibits
       /\ closes = Last(hist).closes

\* C4 as stated: two PrepareForSleep(false) in a row make at most a single
\* Inhibit call between them and leave exactly one fd held.
DoubleTakeSingleInhibit ==
    /\ TakeIsNoOpWhenHeld
    /\ SecondPreSleepChangesNothing
    /\ (Idle /\ TwoInARow(FALSE))
       => /\ inhibits <= hist[Len(hist) - 1].inhibits + 1
          /\ Cardinality(fds) = 1

\* C4: take_inhibitor is a no-op when a lock is held (no Inhibit call, the
\* fd unchanged); of two PrepareForSleep(false) in a row the second issues an
\* Inhibit call exactly when the first left no lock held, so a single call is
\* made and one fd held when the first call succeeds, and never more than one
\* fd is held and none is closed; two PrepareForSleep(true) in a row leave the
\* lock state as one does.
DoubleTakeNoLeak ==
    /\ TakeIsNoOpWhenHeld
    /\ SecondPreSleepChangesNothing
    /\ (Idle /\ TwoInARow(FALSE))
       => /\ Cardinality(fds) <= 1
          /\ closes = hist[Len(hist) - 1].closes
          /\ inhibits = Last(hist).inhibits + (IF Last(hist).fd = 0 THEN 1 ELSE 0)
          /\ hist[Len(hist) - 1].fd = 0
             => Last(hist).inhibits = hist[Len(hist) - 1].inhibits + 1
          /\ (hist[Len(hist) - 1].fd = 0 /\ Last(hist).fd # 0)
             => /\ inhibits = hist[Len(hist) - 1].inhibits + 1
                /\ fds = {Last(hist).fd}

\* C4 witness: two PrepareForSleep(false) in a row, the first Inhibit call
\* failed and the second succeeded
SecondTakeAfterFailedFirst ==
    /\ Idle /\ TwoInARow(FALSE)
    /\ hist[Len(hist) - 1].fd = 0
    /\ Last(hist).fd = 0
    /\ lockOp = "take_ok"
    /\ inhibits = hist[Len(hist) - 1].inhibits + 2

\* C5: receiving PrepareForShutdown(false) changes nothing but the record of
\* signals received: the closure has no step to take, no PowerEvent is
\* delivered, no Inhibit call made and no fd opened or closed; after a
\* handled PrepareForShutdown(true) the monitor thus still holds no lock.
ShutdownFalseChangesNothing ==
    [][ (hist' # hist /\ IsSignal(Last(hist'), "PrepareForShutdown", FALSE))
        => /\ todo' = <<>>
           /\ UNCHANGED <<pc, todo, events, lockVars, envVars, alarm_time,
                          rtcVars, resume_file>>
           /\ (hist # <<>> /\ IsSignal(Last(hist), "PrepareForShutdown", TRUE))
              => /\ Last(events') = "PreShutdown"
                 /\ inhibitor' = 0
                 /\ fds' = {} ]_vars

\* C5 witness: PrepareForShutdown(false) received after a handled
\* PrepareForShutdown(true)
ShutdownFalseAfterShutdown ==
    /\ Idle
    /\ Len(hist) >= 2
    /\ IsSignal(hist[Len(hist) - 1], "PrepareForShutdown", TRUE)
    /\ IsSignal(Last(hist), "PrepareForShutdown", FALSE)
    /\ Last(events) = "PreShutdown"
    /\ lockOp = "release"
    /\ fds = {}

---------------------------------------------------------------------------
(* What the timer answers say, read off the inputs *)

\* u microseconds after the epoch, as an instant
ExactInstant(u) == <<u[1], u[2], u[3] * 1000>>

\* u * 1000 does not fit in a u64
Overflows(u) == ~TLess(ExactInstant(u), Two64)

\* The unit's conversion panics before next_activation returns
UnitPanics(r, checks) ==
    /\ checks
    /\ r.rt.tag = "ok"
    /\ Overflows(r.rt.val) \/ (r.mono.tag = "ok" /\ Overflows(r.mono.val))

\* The unit's query fails or it reports neither elapse time
UnitFails(r, checks) ==
    \/ r.rt.tag = "err"
    \/ /\ ~(checks /\ Overflows(r.rt.val))
       /\ r.mono.tag = "err" \/ (r.rt.val = Zero /\ r.mono.val = Zero)

NoUnitContributes == \A u \in Units : UnitFails(timers[u], overflowChecks)

\* The least instant of a non-empty set
Earliest(S) == CHOOSE x \in S : \A y \in S : TLeq(x, y)

\* C10: when no timer unit contributes on PreShutdown, the callback returns
\* with no target and without any RTC system call (no open, read or write),
\* the RTC alarm is as it was, and the closure goes on to release the lock:
\* once its release step is taken no inhibitor fd is held.  The scheduler
\* runs on; only a bus error, after the release, ends it.
RtcSkippedWithoutTimers ==
    (events # <<>> /\ Last(events) = "PreShutdown" /\ NoUnitContributes)
    => /\ pc = "run" \/ (pc = "exited" /\ lockOp = "release")
       /\ alarm_time = None
       /\ rtcRes = "skipped"
       /\ rtcOps = <<>>
       /\ rtc = rtcPrev
       /\ todo = <<Step("release", "none")>> \/ (inhibitor = 0 /\ fds = {})

\* C10 witness: PreShutdown handled with no contributing unit, lock released
ShutdownHandledWithoutTimers ==
    /\ Idle
    /\ hist # <<>>
    /\ events # <<>>
    /\ IsSignal(Last(hist), "PrepareForShutdown", TRUE)
    /\ Last(events) = "PreShutdown"
    /\ NoUnitContributes
    /\ rtcRes = "skipped"
    /\ lockOp = "release"
    /\ closes = 1
    /\ fds = {}

\* Some timer unit contributes an activation
SomeUnitContributes ==
    \E u \in Units : ~UnitFails(timers[u], overflowChecks)
                     /\ ~UnitPanics(timers[u], overflowChecks)

\* C11: when the PreShutdown callback has a target and programming the RTC
\* does not succeed (/dev/rtc0 cannot be opened, the clock mode cannot be
\* read, RTC_WKALRM_RD or RTC_WKALRM_SET fails), set_wake_alarm returns an
\* error after the failing call, the alarm is as it was, the callback returns,
\* the scheduler keeps running and its closure releases the lock; only a bus
\* error, after the release, ends the scheduler.
RtcFailureDoesNotStopShutdown ==
    (/\ events # <<>> /\ Last(events) = "PreShutdown"
     /\ alarm_time.tag = "ok"
     /\ rtcRes # "ok"
     /\ enabled(rtcPrev) => to_chrono(rtcPrev.time).tag = "ok")
    => /\ rtcRes = "err"
       /\ pc = "run" \/ (pc = "exited" /\ lockOp = "release")
       /\ rtcOps \in {<<"open">>, <<"open", "read">>, <<"open", "read", "write">>}
       /\ ~rtcPresent => rtcOps = <<"open">>
       /\ rtc = rtcPrev
       /\ todo = <<Step("release", "none")>> \/ (inhibitor = 0 /\ fds = {})

\* C11 witness: RTC_WKALRM_SET failed, the lock was released and the
\* scheduler went on to receive another signal
RunningAfterFailedRtcWrite ==
    /\ Idle
    /\ events # <<>> /\ Last(events) = "PreShutdown"
    /\ rtcRes = "err"
    /\ rtcOps = <<"open", "read", "write">>
    /\ lockOp = "release"
    /\ fds = {}
    /\ IsSignal(Last(hist), "PrepareForShutdown", FALSE)

\* C12 as stated: on PreSleep as on PreShutdown, when some timer contributes,
\* the planner has run and gone to the RTC by the time the callback returns.
PlannerRunsOnBothPreEvents ==
    (/\ pc = "run" /\ events # <<>>
     /\ Last(events) \in {"PreSleep", "PreShutdown"}
     /\ SomeUnitContributes)
    => alarm_time.tag = "ok" /\ rtcOps # <<>>

\* C12: the wake alarm is programmed before shutdown only.  When the
\* PreShutdown callback returns and some timer contributes, the planner has
\* computed a target and gone to the RTC, and the lock is released only
\* afterwards; the PreSleep callback queries no timer and leaves the target,
\* the RTC and the resume file as they were before the lock is released.
PlannerRunsOnPreShutdownOnly ==
    [][ (events' # events /\ pc' = "run")
        => /\ Last(events') = "PreShutdown" /\ SomeUnitContributes
              => /\ alarm_time'.tag = "ok"
                 /\ rtcOps' # <<>> /\ Head(rtcOps') = "open"
                 /\ todo' = <<Step("release", "none")>>
                 /\ UNCHANGED lockVars
           /\ Last(events') = "PreSleep"
              => /\ UNCHANGED <<alarm_time, rtcVars, resume_file, lockVars>>
                 /\ todo' = <<Step("release", "none")>> ]_vars

\* C12 witness: a PrepareForSleep(true) handled, the lock released, with a
\* contributing timer and the RTC never touched
SuspendedWithoutProgramming ==
    /\ Idle
    /\ events # <<>> /\ Last(events) = "PreSleep"
    /\ SomeUnitContributes
    /\ lockOp = "release"
    /\ fds = {}
    /\ alarm_time = Unset
    /\ rtcRes = "unset"

---------------------------------------------------------------------------
(* The scheduler under SIGTERM and bus failure *)

\* A machine without RTC whose timers report no activation
QuietMachine ==
    /\ timers = <<Silent, TimerReport(Err, Ok(MonotonicB))>>
    /\ ~overflowChecks
    /\ ~rtcPresent
    /\ adjtime = AdjAbsent
    /\ ~enabled(rtc)

InitTerm == Init /\ QuietMachine

\* main up to its loop: the connection to the system bus, the registration of
\* the monitor (the matchers and the first lock, as in Start) and of the
\* SIGTERM flag.  Each may fail, and main returns the error; the lock taken
\* before the flag could not be registered is closed as the process ends.
StartMain ==
    /\ pc = "start"
    /\ \E connected, ok, hooked \in BOOLEAN :
          LET r == take_inhibitor(Lock, ok)
          IN  IF ~connected
              THEN pc' = "exited" /\ UNCHANGED lockVars
              ELSE IF r.res # "ok"
              THEN SetLock(r.lock) /\ lockOp' = "take_err" /\ pc' = "exited"
              ELSE IF ~hooked
              THEN /\ inhibitor' = 0
                   /\ fds' = {}
                   /\ inhibits' = r.lock.inhibits
                   /\ closes' = r.lock.closes + Cardinality(r.lock.fds)
                   /\ lockOp' = "take_ok"
                   /\ pc' = "exited"
              ELSE SetLock(r.lock) /\ lockOp' = "take_ok" /\ pc' = "run"
    /\ UNCHANGED <<todo, hist, events, envVars, alarm_time, rtcVars, resume_file>>
    /\ UNCHANGED <<resumed, shutdown, ticks, runnerVars, fnVars>>

\* SIGTERM.  Before the flag is registered the signal terminates the process:
\* before it has called Inhibit, while the call is in flight (issued, its
\* reply not yet returned: no fd is held), or with the lock taken, whose fd is
\* closed with the process.  Afterwards signal_hook stores true into the flag, wherever main
\* is: in a slice of conn.process that waits, or inside a closure.
Sigterm ==
    /\ shutdown = "unset"
    /\ \/ /\ pc = "start"
          /\ pc' = "killed"
          /\ \E at \in {"before", "in_flight", "taken"} :
                /\ inhibits' = IF at = "before" THEN inhibits ELSE inhibits + 1
                /\ closes' = IF at = "taken" THEN closes + 1 ELSE closes
                /\ lockOp' = IF at = "taken" THEN "take_ok" ELSE lockOp
          /\ inhibitor' = 0
          /\ fds' = {}
          /\ shutdown' = shutdown
       \/ /\ pc = "run"
          /\ shutdown' = IF todo = <<>> THEN "set_waiting" ELSE "set"
          /\ UNCHANGED <<pc, lockVars>>
    /\ UNCHANGED <<todo, hist, events, envVars, alarm_time, rtcVars,
                   resume_file, resumed, ticks, runnerVars, fnVars>>

\* The loop condition finds the flag set: main returns Ok(()), the process
\* exits with status 0 and its fds are closed.
ExitOnTerm ==
    /\ Idle
    /\ shutdown # "unset"
    /\ pc' = "exit0"
    /\ Teardown
    /\ UNCHANGED <<todo, hist, events, envVars, alarm_time, rtcVars, resume_file,
                   resumed, shutdown, ticks, runnerVars, fnVars>>

NextTerm ==
    \/ StartMain
    \/ Receive
    \/ CallbackPreSleep
    \/ CallbackPostSleep
    \/ WriteResumeTimestamp
    \/ CallbackPreShutdown
    \/ Release
    \/ Take
    \/ Sigterm
    \/ ExitOnTerm
    \/ BusError

\* A slice of conn.process ends within its timeout, and a closure that was
\* entered runs to its end.
SpecTerm ==
    /\ InitTerm
    /\ [][NextTerm]_vars
    /\ WF_vars(ExitOnTerm)
    /\ WF_vars(CallbackPreSleep \/ CallbackPostSleep \/ WriteResumeTimestamp
               \/ CallbackPreShutdown \/ Release \/ Take)

\* C20: once SIGTERM has set the shutdown flag the scheduler stops, and when
\* it has stopped it has exited with status 0.
ExitsZeroOnceFlagSet ==
    (pc = "run" /\ shutdown # "unset") ~> (pc = "exit0")

\* C20, as the code has it: once SIGTERM has set the flag, at most the slice
\* of conn.process that was waiting dispatches one more signal, whose closure
\* runs to its end; with the flag set, main at its loop condition does
\* nothing but leave the loop, the process exits with status 0 and every
\* inhibitor fd it held is closed.  Only the slice that was waiting when the
\* flag was set can still fail: main then returns the error, and the fd is
\* closed all the same.  Either way a scheduler whose flag is set stops.  A
\* SIGTERM before the flag is registered kills the process.
SigtermStopsScheduler ==
    /\ [][ /\ (pc = "run" /\ todo = <<>> /\ shutdown = "set") => pc' = "exit0"
           /\ (hist' # hist /\ shutdown # "unset")
              => shutdown = "set_waiting" /\ shutdown' = "set"
           /\ shutdown = "set" => shutdown' = "set"
           /\ pc' = "exit0"
              => /\ pc = "run" /\ todo = <<>> /\ shutdown # "unset"
                 /\ inhibitor' = 0 /\ fds' = {}
                 /\ closes' = closes + Cardinality(fds)
           /\ (pc = "run" /\ pc' = "exited" /\ shutdown # "unset")
              => /\ todo = <<>> /\ shutdown = "set_waiting"
                 /\ inhibitor' = 0 /\ fds' = {}
                 /\ closes' = closes + Cardinality(fds)
           /\ pc' = "killed"
              => pc = "start" /\ shutdown' = "unset" /\ fds' = {} ]_vars
    /\ (pc = "run" /\ shutdown # "unset") ~> (pc \in {"exit0", "exited"})

\* C20 witness: SIGTERM found main waiting in conn.process, that slice still
\* dispatched a PrepareForShutdown(false), then the scheduler exited with
\* status 0 and its fd was closed
ExitedOnSigterm ==
    /\ pc = "exit0"
    /\ shutdown = "set"
    /\ hist # <<>> /\ IsSignal(Last(hist), "PrepareForShutdown", FALSE)
    /\ lockOp = "take_ok"
    /\ fds = {}
    /\ closes = inhibits

---------------------------------------------------------------------------
(* The planner alone: the fold of the PreShutdown callback applied to every *)
(* pair of timer answers.                                                   *)

InitPlan ==
    /\ pc = "run"
    /\ todo = <<Step("callback", "PreShutdown"), Step("release", "none")>>
    /\ hist = <<Signal("PrepareForShutdown", TRUE, LockState(1, {1}, 1, 0))>>
    /\ events = <<>>
    /\ inhibitor = 1
    /\ fds = {1}
    /\ inhibits = 1
    /\ closes = 0
    /\ lockOp = "take_ok"
    /\ timers \in {<<a, b>> : a \in TimerReports, b \in TimerReports}
    /\ clock \in Clocks
    /\ overflowChecks \in BOOLEAN
    /\ alarm_time = Unset
    /\ rtcPresent = TRUE
    /\ adjtime = AdjAbsent
    /\ zone = "Etc/GMT-2"
    /\ rtc = RtcWakeAlarm(0, 0, RtcTime(0, 0, 0, 1, 0, 100))
    /\ rtcPrev = rtc
    /\ rtcOps = <<>>
    /\ rtcRes = "unset"
    /\ resume_file = [tag |-> "absent", val |-> Zero]
    /\ resumed = Unset
    /\ shutdown = "unset"
    /\ ticks = 0
    /\ RunnerNotStarted
    /\ NoConversion

\* The fold over TIMER_UNITS of the PreShutdown callback
PlanAlarmTime ==
    /\ alarm_time = Unset
    /\ alarm_time' = alarm_time_of(timers, clock, overflowChecks)
    /\ UNCHANGED <<pc, todo, hist, events, lockVars, envVars, rtcVars, resume_file>>
    /\ UNCHANGED <<resumed, shutdown, ticks, runnerVars, fnVars>>

NextPlan == PlanAlarmTime

SpecPlan == InitPlan /\ [][NextPlan]_vars

\* The unit answers both reads and reports an elapse time on some clock
ReportsInstant(r) ==
    /\ r.rt.tag = "ok"
    /\ r.mono.tag = "ok"
    /\ r.rt.val # Zero \/ r.mono.val # Zero

\* The instants a unit reports: its nonzero realtime value, and its nonzero
\* monotonic value moved to the realtime domain by the clocks' offset
ReportedInstants(r, clk) ==
    (IF r.rt.val # Zero THEN {ExactInstant(r.rt.val)} ELSE {})
    \cup (IF r.mono.val # Zero
          THEN {TAdd(ExactInstant(r.mono.val), TSub(clk.realtime, clk.monotonic))}
          ELSE {})

\* C7: the target is the earliest instant reported by a contributing unit,
\* and there is none when no unit contributes.
TargetIsEarliestInstant ==
    alarm_time # Unset
    => LET contributing == {u \in Units : ReportsInstant(timers[u])}
       IN  alarm_time =
               IF contributing = {} THEN None
               ELSE Ok(Earliest(UNION {ReportedInstants(timers[u], clock) :
                                       u \in contributing}))

\* No elapse value of the timers overflows when converted
NoOverflow ==
    \A u \in Units :
        /\ timers[u].rt.tag = "ok" => ~Overflows(timers[u].rt.val)
        /\ timers[u].mono.tag = "ok" => ~Overflows(timers[u].mono.val)

\* The timer answers with some elapse values taken away (reported as 0)
Without(r) ==
    {TimerReport(rt, mono) :
        rt \in {r.rt} \cup (IF r.rt.tag = "ok" THEN {Ok(Zero)} ELSE {}),
        mono \in {r.mono} \cup (IF r.mono.tag = "ok" THEN {Ok(Zero)} ELSE {})}

SubInputs(ts) == {<<a, b>> : a \in Without(ts[1]), b \in Without(ts[2])}

\* C8: for every input with fewer elapse values that yields a target, the
\* planner yields a target over the timers' answers, and no later a one.
PlannerMonotone ==
    alarm_time # Unset
    => \A sub \in SubInputs(timers) :
          LET target1 == alarm_time_of(sub, clock, overflowChecks)
          IN  target1.tag = "ok"
              => alarm_time.tag = "ok" /\ TLeq(alarm_time.val, target1.val)

\* C9: when a unit fails (its query fails, or it reports neither elapse
\* time), in whichever position, planning goes on and its outcome is that of
\* the remaining units alone: no target if none remains, else the earliest of
\* their activations.
FailingUnitContributesNothing ==
    (alarm_time # Unset
     /\ \E u \in Units : UnitFails(timers[u], overflowChecks))
    => LET remaining == {u \in Units : ~UnitFails(timers[u], overflowChecks)}
       IN  alarm_time =
               IF remaining = {} THEN None
               ELSE IF \E u \in remaining : UnitPanics(timers[u], overflowChecks)
               THEN Panic
               ELSE Ok(Earliest({next_activation(timers[u], clock,
                                                 overflowChecks).val :
                                 u \in remaining}))

\* C9 witness: the first unit's query fails and the target is the second's
TargetDespiteFailingFirstUnit ==
    /\ alarm_time.tag = "ok"
    /\ timers[1].rt.tag = "err"
    /\ ReportsInstant(timers[2])
    /\ alarm_time.val \in ReportedInstants(timers[2], clock)


---------------------------------------------------------------------------
(* set_wake_alarm alone, applied to every target, RTC alarm and             *)
(* /etc/adjtime of the input sets.                                          *)

\* Targets: 2029-12-31T23:00:00Z, 2030-01-01T00:00:00Z, 2030-01-01T00:00:00.5Z,
\* 2030-01-01T01:00:00Z, 2031-01-01T00:00:00Z, 1969-12-31T23:59:59.999999Z,
\* 2030-10-27T00:30:00Z (02:30 in Europe/Berlin, for the first time),
\* 1985-10-10T10:30:00Z, 1947-06-01T09:30:00Z and the last second a
\* DateTime<Utc> holds, 262142-12-31T23:59:59Z
AlarmTargets ==
    { <<21914, 82800, 0>>, <<21915, 0, 0>>, <<21915, 0, 500000000>>,
      <<21915, 3600, 0>>, <<22280, 0, 0>>, <<-1, 86399, 999999000>>,
      <<22214, 1800, 0>>, <<5761, 37800, 0>>, <<-8250, 34200, 0>>,
      <<95026236, 86399, 0>> }

InitAlarm ==
    /\ pc = "run"
    /\ todo = <<Step("callback", "PreShutdown"), Step("release", "none")>>
    /\ hist = <<Signal("PrepareForShutdown", TRUE, LockState(1, {1}, 1, 0))>>
    /\ events = <<>>
    /\ inhibitor = 1
    /\ fds = {1}
    /\ inhibits = 1
    /\ closes = 0
    /\ lockOp = "take_ok"
    /\ timers = <<Silent, Silent>>
    /\ clock \in Clocks \cup BrokenClocks
    /\ overflowChecks = FALSE
    /\ alarm_time \in {Ok(t) : t \in AlarmTargets}
    /\ rtcPresent \in BOOLEAN
    /\ adjtime \in AdjtimeFiles
    /\ zone \in Zones
    /\ rtc \in RtcAlarms
    /\ rtcPrev = rtc
    /\ rtcOps = <<>>
    /\ rtcRes = "unset"
    /\ resume_file = [tag |-> "absent", val |-> Zero]
    /\ resumed = Unset
    /\ shutdown = "unset"
    /\ ticks = 0
    /\ RunnerNotStarted
    /\ NoConversion

\* set_wake_alarm(&logger, &alarm_time)
SetWakeAlarm ==
    /\ rtcRes = "unset"
    /\ \E rdOk, wrOk \in BOOLEAN :
          LET o == set_wake_alarm(alarm_time.val, rtcPresent, adjtime, rtc, rdOk, wrOk)
          IN  /\ rtcPrev' = rtc
              /\ rtc' = o.alarm
              /\ rtcOps' = o.ops
              /\ rtcRes' = o.res
    /\ UNCHANGED <<pc, todo, hist, events, lockVars, envVars, alarm_time, resume_file>>
    /\ UNCHANGED <<resumed, shutdown, ticks, runnerVars, fnVars>>

NextAlarm == SetWakeAlarm

SpecAlarm == InitAlarm /\ [][NextAlarm]_vars

\* The instant the alarm the RTC held stands for, under the clock mode read
PrevInstant ==
    to_datetime(read_clock_mode(adjtime).mode, to_chrono(rtcPrev.time).val).val

\* The calendar time of the alarm the RTC holds, and the target in the
\* hardware clock's domain
NewHardwareTime == to_chrono(rtc.time).val
HardwareTarget ==
    to_hardware(read_clock_mode(adjtime).mode, alarm_time.val).val

\* set_wake_alarm found an enabled alarm and returned Ok
ReturnedOkOnEnabledAlarm == rtcRes = "ok" /\ enabled(rtcPrev)

\* C6: on an enabled alarm at T_prev the write is issued if and only if the
\* target is earlier than T_prev; otherwise the RTC is left untouched.
WriteOnlyForEarlierTarget ==
    ReturnedOkOnEnabledAlarm
    => ((\E i \in 1..Len(rtcOps) : rtcOps[i] = "write")
        <=> TLess(alarm_time.val, PrevInstant))

---------------------------------------------------------------------------
(* runner/main.rs and runner/systemd.rs: the runner.  Its main is a list of *)
(* steps: Subscribe, the JobRemoved match, StartUnit, the wait for the      *)
(* completion flag (these four are start_unit) and the power decision.      *)

\* Seconds: the uptime below which the boot is attributed to the runner
MIN_INNOCENT_UPTIME == 300

\* Seconds: the age of the resume timestamp below which the wake is
MIN_INNOCENT_WAKETIME == 60

\* Times the clocks are moved forward in one run
MaxTicks == 2

\* JobRemoved signals one run of the runner is handed
MaxJobSignals == 2

\* What sysinfo() answers: an error, or an uptime in whole seconds
Uptimes == {<<0, MIN_INNOCENT_UPTIME - 1, 0>>, <<0, MIN_INNOCENT_UPTIME, 0>>}
UptimeAnswers == QueryResults(Uptimes)

\* The runner's command line after the program name
Target == "payload.service"
RunnerArgs == {<<>>, <<Target>>}

\* The clocks move by a nanosecond or by a nanosecond less than
\* MIN_INNOCENT_WAKETIME after the millisecond the first clock reading is in
TickDeltas == {<<0, 0, 1>>, <<0, MIN_INNOCENT_WAKETIME - 1, 999999543>>}

\* JobRemoved signals: the job StartUnit returned ("started") or another job,
\* the unit it was for, and its result
JobRemoved(path, u, result) == [job |-> path, unit |-> u, result |-> result]
JobSignals ==
    { JobRemoved("started", Target, "done"),
      JobRemoved("started", Target, "failed"),
      JobRemoved("other", Target, "done"),
      JobRemoved("other", "other.service", "done") }

\* caused_boot on the answer of sysinfo()
caused_boot(info) ==
    IF info.tag = "ok"
    THEN TLess(info.val, <<0, MIN_INNOCENT_UPTIME, 0>>)
    ELSE FALSE

\* Utc.timestamp_millis(ms): Ok(the instant, in nanoseconds, of a millisecond
\* count), or its panic on a count that stands for no instant chrono holds
from_timestamp_millis(ms) ==
    IF InChronoRange(ms)
    THEN Ok(<<ms[1], ms[2], ms[3] * 1000 * 1000>>)
    ELSE Panic

\* caused_wake, Ok(answer): the file is unreadable ("absent") or does not
\* parse ("empty"): false.  Else delta = start_time - resume_time; to_std()
\* fails on a negative delta: true; else delta < MIN_INNOCENT_WAKETIME.  The
\* panic of Utc.timestamp_millis is not caught.
caused_wake(file, start) ==
    IF file.tag = "absent" THEN Ok(FALSE)
    ELSE IF file.tag = "empty" THEN Ok(FALSE)
    ELSE LET resume_time == from_timestamp_millis(file.val)
             delta == TSub(start, resume_time.val)
         IN  IF resume_time.tag = "panic" THEN Panic
             ELSE IF delta[1] < 0 THEN Ok(TRUE)
             ELSE Ok(TLess(delta, <<0, MIN_INNOCENT_WAKETIME, 0>>))

\* main's decision with the branches in the other order
power_action_wake_first(boot, wake) ==
    IF wake.tag = "panic" THEN Panic
    ELSE IF wake.val THEN Ok("Suspend")
    ELSE IF boot THEN Ok("PowerOff") ELSE Ok("none")

\* main's decision made on the boot attribution alone
power_action_boot_only(boot, wake) ==
    IF boot THEN Ok("PowerOff") ELSE Ok("none")

\* main, after start_unit: `if should_shutdown .. else if caused_wake(..) ..`,
\* Ok(call) or the panic of caused_wake, which is called (`wake` is looked
\* at) only when should_shutdown does not hold
power_action(boot, wake) ==
    IF boot THEN Ok("PowerOff")
    ELSE IF wake.tag = "panic" THEN Panic
    ELSE IF wake.val THEN Ok("Suspend") ELSE Ok("none")

\* The closure setting the flag for a JobRemoved of any unit
job_removed_any(j, target) == TRUE

\* The JobRemoved closure: whether the signal sets `started` (the closure then
\* returns false and the match is removed)
job_removed(j, target) == j.unit = target

\* What main does once the connection is open
runner_main == <<"subscribe", "match_signal", "start_unit", "wait", "decide">>

\* main going on to its decision after an error of start_unit
continue_on_error(rest) == <<"decide">>

\* An error inside start_unit: `?` returns it from start_unit and from main;
\* nothing of `rest` runs.
abort_on_error(rest) == <<>>

RunnerStep(op) == rpc = "run" /\ rtodo # <<>> /\ Head(rtodo) = op

\* The step went well, or main stops for good
RunnerAdvance(ok) ==
    LET rest == IF ok THEN Tail(rtodo) ELSE abort_on_error(Tail(rtodo))
    IN  /\ rtodo' = rest
        /\ rpc' = IF ok THEN (IF rest = <<>> THEN "ok" ELSE "run")
                  ELSE (IF rest = <<>> THEN "failed" ELSE "run")

schedulerVars == <<pc, todo, hist, events, lockVars, envVars, alarm_time, rtcVars,
                   resume_file, resumed, shutdown, ticks>>

\* main up to start_unit: the start time (Utc::now(), which panics on a
\* clock it cannot read: the process ends there) and the uptime are read, the
\* unit argument taken (none: main bails) and the system bus connected to.
RunnerStart ==
    /\ rpc = "idle"
    /\ IF utc_now(clock).tag = "panic"
       THEN /\ rpc' = "panicked"
            /\ rtodo' = <<>>
            /\ UNCHANGED <<start_time, uptime, should_shutdown, unit>>
       ELSE /\ start_time' = utc_now(clock)
            /\ \E info \in UptimeAnswers, args \in RunnerArgs, connected \in BOOLEAN :
                  /\ uptime' = info
                  /\ should_shutdown' = caused_boot(info)
                  /\ IF args = <<>>
                     THEN rpc' = "failed" /\ unit' = unit /\ rtodo' = <<>>
                     ELSE /\ unit' = args[1]
                          /\ IF connected
                             THEN rpc' = "run" /\ rtodo' = runner_main
                             ELSE rpc' = "failed" /\ rtodo' = <<>>
    /\ UNCHANGED <<calls, matched, started, job, jobs, schedulerVars, fnVars>>

\* manager.subscribe()?
RunnerSubscribe ==
    /\ RunnerStep("subscribe")
    /\ calls' = Append(calls, "Subscribe")
    /\ \E ok \in BOOLEAN : RunnerAdvance(ok)
    /\ UNCHANGED <<start_time, uptime, should_shutdown, unit, matched, started,
                   job, jobs, schedulerVars, fnVars>>

\* manager.match_signal(closure)?
RunnerMatch ==
    /\ RunnerStep("match_signal")
    /\ calls' = Append(calls, "AddMatch")
    /\ \E ok \in BOOLEAN : matched' = ok /\ RunnerAdvance(ok)
    /\ UNCHANGED <<start_time, uptime, should_shutdown, unit, started, job, jobs,
                   schedulerVars, fnVars>>

\* manager.start_unit(&unit, "fail"): a job, or the error is returned
RunnerStartUnit ==
    /\ RunnerStep("start_unit")
    /\ calls' = Append(calls, "StartUnit")
    /\ \E ok \in BOOLEAN :
          /\ job' = IF ok THEN "started" ELSE job
          /\ RunnerAdvance(ok)
    /\ UNCHANGED <<start_time, uptime, should_shutdown, unit, matched, started,
                   jobs, schedulerVars, fnVars>>

\* manager.start_unit has returned Ok(job)
StartUnitReturnedJob == job = "started"

\* One turn of `while !started.load(..)` with the flag unset:
\* conn.process(500 ms) fails, or times out, or dispatches one JobRemoved,
\* which runs the closure if the match is registered.  The signal of the
\* started job is sent once, after StartUnit has returned the job.
RunnerPump ==
    /\ RunnerStep("wait")
    /\ ~started
    /\ \/ /\ RunnerAdvance(FALSE)
          /\ UNCHANGED <<matched, started, jobs>>
       \/ /\ UNCHANGED <<rpc, rtodo, matched, started, jobs>>
       \/ /\ Len(jobs) < MaxJobSignals
          /\ \E j \in JobSignals :
                /\ j.job = "started"
                   => /\ StartUnitReturnedJob
                      /\ \A i \in 1..Len(jobs) : jobs[i].job # "started"
                /\ jobs' = Append(jobs, j)
                /\ IF matched /\ job_removed(j, unit)
                   THEN started' = TRUE /\ matched' = FALSE
                   ELSE UNCHANGED <<started, matched>>
          /\ UNCHANGED <<rpc, rtodo>>
    /\ UNCHANGED <<start_time, uptime, should_shutdown, unit, calls, job,
                   schedulerVars, fnVars>>

\* The loop condition finds the flag set: start_unit returns Ok(())
RunnerReturn ==
    /\ RunnerStep("wait")
    /\ started
    /\ RunnerAdvance(TRUE)
    /\ UNCHANGED <<start_time, uptime, should_shutdown, unit, calls, matched,
                   started, job, jobs, schedulerVars, fnVars>>

\* main after start_unit: PowerOff, Suspend or nothing; the resume timestamp
\* is read now, unless should_shutdown holds.  An error of the call is
\* returned from main; a panic of caused_wake ends the process.
RunnerDecide ==
    /\ RunnerStep("decide")
    /\ LET act == power_action(should_shutdown,
                               caused_wake(resume_file, start_time.val))
       IN  IF act.tag = "panic"
           THEN calls' = calls /\ rpc' = "panicked" /\ rtodo' = <<>>
           ELSE IF act.val = "none"
           THEN calls' = calls /\ RunnerAdvance(TRUE)
           ELSE /\ calls' = Append(calls, act.val)
                /\ \E ok \in BOOLEAN : RunnerAdvance(ok)
    /\ UNCHANGED <<start_time, uptime, should_shutdown, unit, matched, started,
                   job, jobs, schedulerVars, fnVars>>

\* Time passes
Tick ==
    /\ ticks < MaxTicks
    /\ ticks' = ticks + 1
    /\ \E d \in TickDeltas :
          clock' = [clock EXCEPT !.monotonic = TAdd(clock.monotonic, d),
                                 !.realtime = TAdd(clock.realtime, d)]
    /\ UNCHANGED <<pc, todo, hist, events, lockVars, timers, overflowChecks,
                   rtcPresent, adjtime, zone, alarm_time, rtcVars, resume_file,
                   resumed, shutdown, runnerVars, fnVars>>

\* The machine resumes: PrepareForSleep(false) reaches the scheduler
ReceiveResume == ReceiveSignal("PrepareForSleep", FALSE)

\* The scheduler is running with its lock held on a machine without RTC whose
\* timers report no activation; the runner has not been started.  There is no
\* resume-timestamp file, or one left holding 8210266876800000, the first
\* millisecond count that stands for no instant chrono holds.
InitRunner ==
    /\ pc = "run"
    /\ todo = <<>>
    /\ hist = <<>>
    /\ events = <<>>
    /\ inhibitor = 1
    /\ fds = {1}
    /\ inhibits = 1
    /\ closes = 0
    /\ lockOp = "take_ok"
    /\ timers = <<Silent, TimerReport(Err, Ok(MonotonicB))>>
    /\ clock \in Clocks \cup BrokenClocks
    /\ overflowChecks = FALSE
    /\ alarm_time = Unset
    /\ rtcPresent = FALSE
    /\ adjtime = AdjAbsent
    /\ zone = "Etc/GMT-2"
    /\ rtc = RtcWakeAlarm(0, 0, RtcTime(0, 0, 0, 1, 0, 100))
    /\ rtcPrev = rtc
    /\ rtcOps = <<>>
    /\ rtcRes = "unset"
    /\ resume_file \in {[tag |-> "absent", val |-> Zero],
                        [tag |-> "ms",
                         val |-> <<DaysFromCivil(262142, 12, 31) + 1, 0, 0>>]}
    /\ resumed = Unset
    /\ shutdown = "unset"
    /\ ticks = 0
    /\ RunnerNotStarted
    /\ NoConversion

\* The steps that end by themselves: the method calls and the loop condition
RunnerCalls ==
    \/ RunnerSubscribe
    \/ RunnerMatch
    \/ RunnerStartUnit
    \/ RunnerReturn
    \/ RunnerDecide

NextRunner ==
    \/ ReceiveResume
    \/ CallbackPostSleep
    \/ WriteResumeTimestamp
    \/ Take
    \/ Tick
    \/ RunnerStart
    \/ RunnerSubscribe
    \/ RunnerMatch
    \/ RunnerStartUnit
    \/ RunnerPump
    \/ RunnerReturn
    \/ RunnerDecide

\* A method call returns within its timeout, and a loop condition that finds
\* the flag set is acted on.
SpecRunner == InitRunner /\ [][NextRunner]_vars /\ WF_vars(RunnerCalls)

---------------------------------------------------------------------------
(* Properties of the runner (SpecRunner) *)

Called(c) == \E i \in 1..Len(calls) : calls[i] = c
IsPowerCall(c) == c \in {"PowerOff", "Suspend"}
PowerCalls == SelectSeq(calls, IsPowerCall)
RunnerFinished == rpc \in {"ok", "failed", "panicked"}

\* sysinfo() answered, with an uptime below / of at least 300 s
UptimeBelow300 == uptime.tag = "ok" /\ uptime.val[1] = 0 /\ uptime.val[2] < 300
UptimeAtLeast300 == uptime.tag = "ok" /\ ~(uptime.val[1] = 0 /\ uptime.val[2] < 300)

\* The instant a resume-timestamp file holds
ResumeInstant(file) == <<file.val[1], file.val[2], file.val[3] * 1000000>>

\* The file holds a timestamp that is later than `start` or less than 60 s
\* before it
WakeAttributed(file, start) ==
    /\ file.tag = "ms"
    /\ \/ TLess(start, ResumeInstant(file))
       \/ TLess(TSub(start, ResumeInstant(file)), <<0, 60, 0>>)

\* The runner's decision step is being taken
RunnerDecides == rpc = "run" /\ rtodo # <<>> /\ Head(rtodo) = "decide" /\ rtodo' # rtodo

\* C14: a run issues at most one power call.  With an uptime below 300 s at
\* its start the runner never calls Suspend, calls PowerOff only once the
\* payload's JobRemoved was seen, and has called it when it ends after that;
\* with an uptime of 300 s or more it never calls PowerOff.
BootAttributionDominates ==
    /\ Len(PowerCalls) <= 1
    /\ UptimeBelow300
       => /\ ~Called("Suspend")
          /\ Called("PowerOff") => started
          /\ (started /\ RunnerFinished) => Called("PowerOff")
    /\ UptimeAtLeast300 => ~Called("PowerOff")

\* C14 witness: uptime 299 s and a resume timestamp written after the start
\* time; the run ended with PowerOff as its only power call
PowerOffDespiteFreshResume ==
    /\ rpc = "ok"
    /\ uptime = Ok(<<0, 299, 0>>)
    /\ resume_file.tag = "ms"
    /\ TLess(start_time.val, ResumeInstant(resume_file))
    /\ calls = <<"Subscribe", "AddMatch", "StartUnit", "PowerOff">>

\* C15: with an uptime of 300 s or more, the decision step calls Suspend
\* exactly if the resume-timestamp file it reads holds a timestamp later than
\* start_time or less than 60 s before it; otherwise (file absent, empty, or
\* 60 s or more before the start) the runner exits without a power call.
WakeAttributionDecides ==
    [][ (RunnerDecides /\ UptimeAtLeast300)
        => IF WakeAttributed(resume_file, start_time.val)
           THEN calls' = Append(calls, "Suspend")
           ELSE calls' = calls /\ rpc' = "ok" ]_vars

\* The JobRemoved signals dispatched so far include one for unit u
JobRemovedSeen(u) == \E k \in 1..Len(jobs) : jobs[k].unit = u

\* C16: a power call is issued only once the job StartUnit started has been
\* removed, never while that job runs.
PowerOnlyAfterStartedJobRemoved ==
    PowerCalls # <<>>
    => \E k \in 1..Len(jobs) : jobs[k].job = "started" /\ jobs[k].unit = unit

\* C17: the flag is set only by the dispatch of a JobRemoved naming the target
\* unit while the match is registered, and the match is removed with it; a
\* JobRemoved of another unit changes neither; the flag is never cleared;
\* start_unit returns Ok only with the flag set; and once the flag is set
\* start_unit does return.
StartUnitWaitsForUnit ==
    /\ [][ /\ started => started'
           /\ (~started /\ started')
              => /\ jobs' = Append(jobs, jobs'[Len(jobs')])
                 /\ jobs'[Len(jobs')].unit = unit
                 /\ matched /\ ~matched'
           /\ (jobs' # jobs /\ jobs'[Len(jobs')].unit # unit)
              => started' = started /\ matched' = matched
           /\ (RunnerStep("wait") /\ rtodo' = Tail(rtodo))
              => started /\ JobRemovedSeen(unit) ]_vars
    /\ (started /\ RunnerStep("wait")) ~> ~RunnerStep("wait")

\* C17 witness: start_unit has returned after a JobRemoved of another unit,
\* which left the flag unset, and one of the target unit
ReturnedAfterMatchingJobRemoved ==
    /\ rpc = "run"
    /\ rtodo = <<"decide">>
    /\ started /\ ~matched
    /\ jobs = <<JobRemoved("other", "other.service", "done"),
                JobRemoved("started", Target, "failed")>>

\* The runner has stopped with an error and without a power call
Aborted == rpc = "failed" /\ rtodo = <<>> /\ PowerCalls = <<>>

\* C18: a StartUnit that returns an error, and a conn.process that fails
\* while the flag is unset, end main with an error (a nonzero exit) with no
\* power call issued, and a runner that has failed takes no further step.
StartUnitErrorAborts ==
    [][ /\ (RunnerStep("start_unit") /\ rtodo' # rtodo /\ rtodo' # Tail(rtodo))
           => Aborted'
        /\ (RunnerStep("wait") /\ ~started /\ rtodo' # rtodo) => Aborted'
        /\ rpc = "failed" => UNCHANGED runnerVars ]_vars

\* C18 witness: the boot is attributed to the runner, the pump dispatched a
\* JobRemoved of another unit and then failed
AbortedWhilePumping ==
    /\ Aborted
    /\ should_shutdown
    /\ calls = <<"Subscribe", "AddMatch", "StartUnit">>
    /\ jobs = <<JobRemoved("other", "other.service", "done")>>

\* C19 as stated: with the boot attributed to the runner, a run that called
\* StartUnit and has ended has called PowerOff, however the start ended.
PowerActionHoweverStartEnded ==
    (RunnerFinished /\ Called("StartUnit") /\ should_shutdown) => Called("PowerOff")

\* C19: when start_unit has returned Ok, whatever the result the JobRemoved
\* reported, the decision step issues PowerOff or Suspend if the boot or the
\* wake is attributed to the runner (the wake on a timestamp chrono holds an
\* instant for; on another one, read because the boot is not attributed, the
\* runner panics without a power call); and once the flag is set the runner
\* reaches that step and ends.
PowerActionWhateverJobResult ==
    /\ [][ /\ (RunnerDecides
               /\ \/ UptimeBelow300
                  \/ /\ WakeAttributed(resume_file, start_time.val)
                     /\ InChronoRange(resume_file.val))
              => /\ Len(calls') = Len(calls) + 1
                 /\ IsPowerCall(calls'[Len(calls')])
           /\ (RunnerDecides /\ ~should_shutdown /\ resume_file.tag = "ms"
               /\ ~InChronoRange(resume_file.val))
              => calls' = calls /\ rpc' = "panicked" ]_vars
    /\ (started /\ rpc = "run") ~> RunnerFinished

\* C19 witness: the started job ended with result "failed" and Suspend was called
SuspendAfterFailedJob ==
    /\ rpc = "ok"
    /\ jobs = <<JobRemoved("started", Target, "failed")>>
    /\ calls = <<"Subscribe", "AddMatch", "StartUnit", "Suspend">>

---------------------------------------------------------------------------
(* The resume timestamp: the scheduler under every power event while time   *)
(* passes, on a machine whose clock may not be readable, and a runner whose *)
(* payload has completed and which is about to take its power decision.     *)

InitResume ==
    /\ pc = "start"
    /\ todo = <<>>
    /\ hist = <<>>
    /\ events = <<>>
    /\ inhibitor = 0
    /\ fds = {}
    /\ inhibits = 0
    /\ closes = 0
    /\ lockOp = "none"
    /\ clock \in Clocks \cup BrokenClocks
    /\ overflowChecks = FALSE
    /\ rtcPresent = FALSE
    /\ alarm_time = Unset
    /\ zone = "Etc/GMT-2"
    /\ rtc \in SchedulerAlarms
    /\ rtcPrev = rtc
    /\ rtcOps = <<>>
    /\ rtcRes = "unset"
    /\ resume_file = [tag |-> "absent", val |-> Zero]
    /\ resumed = Unset
    /\ shutdown = "unset"
    /\ ticks = 0
    /\ QuietMachine
    /\ NoConversion
    /\ LET now == CHOOSE c \in Clocks : TRUE
       IN  /\ rpc = "run"
           /\ rtodo = <<"decide">>
           /\ start_time = Ok(now.realtime)
           /\ uptime = Ok(<<0, MIN_INNOCENT_UPTIME, 0>>)
           /\ should_shutdown = FALSE
           /\ unit = Target
           /\ calls = <<"Subscribe", "AddMatch", "StartUnit">>
           /\ matched = FALSE
           /\ started = TRUE
           /\ job = "started"
           /\ jobs = <<JobRemoved("started", Target, "done")>>

NextResume ==
    \/ Start
    \/ Receive
    \/ CallbackPreSleep
    \/ CallbackPostSleep
    \/ WriteResumeTimestamp
    \/ CallbackPreShutdown
    \/ Release
    \/ Take
    \/ BusError
    \/ Tick
    \/ RunnerDecide

SpecResume == InitResume /\ [][NextResume]_vars

PostSleepHandled == events' = Append(events, "PostSleep")

\* C13 as stated: the file, when it exists, holds the millisecond count of
\* the most recent PostSleep.
ResumeFileHoldsLastResume ==
    resume_file.tag # "absent"
    => /\ resumed.tag = "ok"
       /\ resume_file.tag = "ms"
       /\ ResumeInstant(resume_file)
            = <<resumed.val[1], resumed.val[2],
                resumed.val[3] - (resumed.val[3] % 1000000)>>

\* C13: only the PostSleep callback changes the file (no other event and no
\* step of the runner does), in two steps.  While the clock can be read it
\* first truncates the file, or leaves it as it was (the file could not be
\* created) and returns; after a truncation it writes the millisecond count of
\* the time it read at its start, or leaves the file empty (the write
\* failed); so a timestamp in the file is that of a PostSleep, the most
\* recent one or an earlier one.  When the clock cannot be read (clock_gettime
\* fails, or the time is before 1970) the scheduler ends in the callback with
\* the file as it was.
ResumeFileWrittenOnPostSleepOnly ==
    /\ [][ /\ resume_file' # resume_file
              => PostSleepHandled \/ (NextStep("write") /\ todo' = Tail(todo))
           /\ (PostSleepHandled /\ utc_now(clock).tag = "ok")
              => /\ resumed' = Ok(clock.realtime)
                 /\ pc' = "run"
                 /\ \/ /\ resume_file'.tag = "empty"
                       /\ todo' = <<Step("write", "PostSleep")>> \o Tail(todo)
                    \/ /\ resume_file' = resume_file
                       /\ todo' = Tail(todo)
           /\ (NextStep("write") /\ todo' # todo)
              => /\ resumed' = resumed
                 /\ resume_file.tag = "empty"
                 /\ \/ /\ resume_file'.tag = "ms"
                       /\ resume_file'.val[1] = resumed.val[1]
                       /\ resume_file'.val[2] = resumed.val[2]
                       /\ resume_file'.val[3] * 1000000 <= resumed.val[3]
                       /\ resumed.val[3] < (resume_file'.val[3] + 1) * 1000000
                    \/ resume_file'.tag = "empty"
           /\ (PostSleepHandled /\ utc_now(clock).tag = "panic")
              => /\ pc' = "crashed"
                 /\ resume_file' = resume_file
                 /\ resumed' = resumed ]_vars
    /\ [](resume_file.tag = "ms"
          => resumed.tag = "ok" /\ TLeq(ResumeInstant(resume_file), resumed.val))

\* C13 witness: a second resume, later than the first by more than a
\* millisecond, has rewritten the file with its own time, and the runner has
\* read the file and called Suspend
ResumeFileRewritten ==
    /\ Len(SelectSeq(events, LAMBDA e : e = "PostSleep")) = 2
    /\ resume_file.tag = "ms"
    /\ resume_file.val[3] = 999
    /\ resumed.tag = "ok"
    /\ resumed.val[3] \div 1000000 = 999
    /\ Called("Suspend")

---------------------------------------------------------------------------
(* The scheduler on a machine where the callbacks' work can fail: the       *)
(* clocks may not be readable, /etc/adjtime may hold an unknown mode, the   *)
(* RTC may hold an enabled alarm whose fields are no calendar date or no    *)
(* time of the local zone, and every ioctl and file operation may fail.     *)

\* An enabled alarm as an RTC that was never programmed reports it: day 0
GarbageAlarm == RtcWakeAlarm(1, 0, RtcTime(0, 0, 0, 0, 0, 100))

\* An enabled alarm at 2030-03-31T02:30:00, a calendar time Europe/Berlin skips
SkippedAlarm == RtcWakeAlarm(1, 0, RtcTime(0, 30, 2, 31, 2, 130))

InitFaults ==
    /\ pc = "start"
    /\ todo = <<>>
    /\ hist = <<>>
    /\ events = <<>>
    /\ inhibitor = 0
    /\ fds = {}
    /\ inhibits = 0
    /\ closes = 0
    /\ lockOp = "none"
    /\ timers \in {<<TimerReport(Ok(RealtimeB), Ok(Zero)),
                    TimerReport(Ok(Zero), Ok(MonotonicB))>>,
                  <<TimerReport(Ok(RealtimeB), Ok(Zero)), Silent>>}
    /\ clock \in Clocks \cup BrokenClocks
    /\ overflowChecks = FALSE
    /\ alarm_time = Unset
    /\ rtcPresent \in BOOLEAN
    /\ adjtime \in {AdjAbsent, AdjOther, AdjLocal}
    /\ zone \in Zones
    /\ rtc \in {RtcWakeAlarm(0, 0, RtcTime(0, 0, 0, 1, 0, 100)), GarbageAlarm,
                SkippedAlarm}
    /\ rtcPrev = rtc
    /\ rtcOps = <<>>
    /\ rtcRes = "unset"
    /\ resume_file = [tag |-> "absent", val |-> Zero]
    /\ resumed = Unset
    /\ shutdown = "unset"
    /\ ticks = 0
    /\ RunnerNotStarted
    /\ NoConversion

SpecFaults == InitFaults /\ [][Next]_vars

\* C21 as stated: whatever fails inside it, a callback returns normally: the
\* scheduler keeps running and goes on to the rest of the callback (the write
\* of the timestamp) or to the lock step of the closure.
CallbacksNeverPropagate ==
    [][ (NextStep("callback") /\ events' # events)
        => /\ pc' = "run"
           /\ todo' # <<>> /\ Head(todo').op \in {"write", "release", "take"} ]_vars

---------------------------------------------------------------------------
(* Properties of set_wake_alarm (SpecAlarm), continued *)

\* /etc/adjtime is there and readable but has no third line, or one that is
\* neither UTC nor LOCAL
MalformedAdjtime == adjtime \in {AdjShort, AdjOther}

SetWakeAlarmCalled == rtcRes # "unset"

\* C22 as stated: on a malformed /etc/adjtime set_wake_alarm takes UTC and
\* goes on to read the RTC alarm.
MalformedAdjtimeDefaultsToUtc ==
    (MalformedAdjtime /\ rtcPresent /\ SetWakeAlarmCalled)
    => \E i \in 1..Len(rtcOps) : rtcOps[i] = "read"

\* C22: on a malformed /etc/adjtime set_wake_alarm returns the error of
\* read_clock_mode right after opening the RTC: the alarm is neither read nor
\* written and stays as it was.  Only an absent file gives UTC: then the RTC
\* is read, and a successful call leaves the alarm enabled.
MalformedAdjtimeAborts ==
    /\ (MalformedAdjtime /\ rtcPresent /\ SetWakeAlarmCalled)
       => /\ rtcRes = "err"
          /\ rtcOps = <<"open">>
          /\ rtc = rtcPrev
    /\ (adjtime = AdjAbsent /\ rtcPresent /\ SetWakeAlarmCalled)
       => /\ Len(rtcOps) >= 2 /\ rtcOps[2] = "read"
          /\ rtcRes = "ok" => enabled(rtc)

\* C22 witness: the third line is "utc"; set_wake_alarm failed after the open
AbortedOnUnknownMode ==
    /\ adjtime = AdjOther
    /\ rtcPresent
    /\ rtcRes = "err"
    /\ rtcOps = <<"open">>
    /\ ~enabled(rtc)

---------------------------------------------------------------------------
(* dbus.rs: the proxies the runner's calls go through, and the message      *)
(* behind each entry of `calls`.  Whether the bus accepts a message is the  *)
(* environment's answer, which the runner's steps leave open.               *)

Proxy(dest, path) == [dest |-> dest, path |-> path]

\* login_manager(connection)
login_manager == Proxy("org.freedesktop.login1", "/org/freedesktop/login1")

\* systemd_manager(connection)
systemd_manager == Proxy("org.freedesktop.systemd1", "/org/freedesktop.systemd1")

MethodCall(proxy, interface, member, args) ==
    [dest |-> proxy.dest, path |-> proxy.path, interface |-> interface,
     member |-> member, args |-> args]

\* shutdown() going to the unit manager and asking for interactive authorization
method_call_unit_manager(c, u) ==
    IF c = "PowerOff"
    THEN MethodCall(systemd_manager, "org.freedesktop.systemd1.Manager", c, <<TRUE>>)
    ELSE MethodCall(login_manager, "org.freedesktop.login1.Manager", c, <<FALSE>>)

\* start_unit, shutdown and suspend: the message of call c for unit u
method_call(c, u) ==
    IF c = "Subscribe"
    THEN MethodCall(systemd_manager, "org.freedesktop.systemd1.Manager", c, <<>>)
    ELSE IF c = "AddMatch"
    THEN MethodCall(systemd_manager, "org.freedesktop.systemd1.Manager",
                    "JobRemoved", <<>>)
    ELSE IF c = "StartUnit"
    THEN MethodCall(systemd_manager, "org.freedesktop.systemd1.Manager", c,
                    <<u, "fail">>)
    ELSE MethodCall(login_manager, "org.freedesktop.login1.Manager", c, <<FALSE>>)

\* C23: every PowerOff and Suspend the runner has issued went to the login
\* manager's object with interactive = false.
PowerCallsGoToLoginManager ==
    \A i \in 1..Len(calls) :
       IsPowerCall(calls[i])
       => LET m == method_call(calls[i], unit)
          IN  /\ m.dest = "org.freedesktop.login1"
              /\ m.path = "/org/freedesktop/login1"
              /\ m.interface = "org.freedesktop.login1.Manager"
              /\ m.member = calls[i]
              /\ m.args = <<FALSE>>

\* C23 witness: PowerOff was called and refused, and the runner failed
PowerOffRefused ==
    /\ rpc = "failed"
    /\ calls = <<"Subscribe", "AddMatch", "StartUnit", "PowerOff">>

\* C28 as stated: Subscribe, the JobRemoved match and StartUnit are addressed
\* to org.freedesktop.systemd1 at /org/freedesktop/systemd1.
UnitManagerCallsAddressed ==
    \A i \in 1..Len(calls) :
       calls[i] \in {"Subscribe", "AddMatch", "StartUnit"}
       => LET m == method_call(calls[i], unit)
          IN  /\ m.dest = "org.freedesktop.systemd1"
              /\ m.path = "/org/freedesktop/systemd1"

---------------------------------------------------------------------------
(* The functions on their own: each is applied to inputs drawn from the    *)
(* sets below, the calendar conversions in a chain that alternates         *)
(* from_chrono and to_chrono.                                              *)

\* How many conversions a chain applies
MaxChain == 3

\* Calendar instants with whole seconds between 1970-01-01 and 2099-12-31:
\* the first and the last day, both sides of the end of February in a common
\* year, a leap year and the leap year 2000, and the ends of minute, hour and day.
NaiveInstants ==
    { <<d, s, 0>> : d \in {0, 58, 59, 789, 10957, 11016, 11017, 16616, 47481},
                    s \in {0, 59, 60, 3599, 3600, 43200, 86399} }

\* Instants inside a leap second (sub-second part 1000 ms to 1999 ms), and the
\* last instants before one
LeapInstants ==
    { <<d, s, f>> : d \in {11016, 16616}, s \in {59, 86399},
                    f \in {999999999, 1000 * 1000 * 1000, 1500 * 1000 * 1000,
                           1999999999} }

\* Hardware times to decode: leap seconds, the last second of 2099, fields
\* that are no calendar date, years outside chrono's range, and the last
\* second and the first day inside it
RtcTimes ==
    { RtcTime(60, 59, 23, 30, 5, 115), RtcTime(60, 0, 0, 1, 0, 100),
      RtcTime(60, 59, 23, 31, 11, 98), RtcTime(59, 59, 23, 31, 11, 199),
      RtcTime(0, 0, 0, 0, 0, 100), RtcTime(0, 0, 0, 29, 1, 101),
      RtcTime(0, 0, 0, 1, 0, 1000000), RtcTime(0, 0, 0, 1, 0, 260244),
      RtcTime(0, 0, 0, 1, 0, -300000), RtcTime(59, 59, 23, 31, 11, 260243),
      RtcTime(59, 59, 23, 31, 11, 260242), RtcTime(0, 0, 0, 1, 0, -264044),
      RtcTime(0, 0, 0, 1, 0, -264043) }

\* /etc/adjtime files to parse
ClockModeFiles ==
    AdjtimeFiles \cup
    { AdjFile(<<>>),
      AdjFile(<<AdjLine1>>),
      AdjFile(<<AdjLine1, AdjLine2, <<>>>>),
      AdjFile(<<AdjLine1, AdjLine2, <<" ", "U", "T", "C", "\t">>>>),
      AdjFile(<<AdjLine1, AdjLine2, <<"\t", "L", "O", "C", "A", "L">>>>),
      AdjFile(<<AdjLine1, AdjLine2, <<"L", "O", "C", "A", "L">>>>),
      AdjFile(<<AdjLine1, AdjLine2, <<"U", " ", "T", "C">>>>),
      AdjFile(<<AdjLine1, AdjLine2, <<"U", "T", "C", "\f">>>>),
      AdjFile(<<AdjLine1, AdjLine2, <<"U+00A0", "L", "O", "C", "A", "L", "U+000B">>>>),
      AdjFile(<<AdjLine1, AdjLine2, <<"U+3000", "\f", "U", "T", "C", " ", "U+0085">>>>),
      AdjFile(<<AdjLine1, AdjLine2, <<"U+200B", "U", "T", "C">>>>),
      AdjFile(<<AdjLine1, AdjLine2, <<"U", "T", "C", "X">>>>),
      AdjFile(<<AdjLine1, AdjLine2, <<"L", "o", "c", "a", "l">>>>),
      AdjFile(<<AdjLine1, <<"U", "T", "C">>, AdjLine2>>),
      AdjFile(<<AdjLine1, AdjLine2, <<"U", "T", "C">>, <<"L", "O", "C", "A", "L">>>>) }

\* Microsecond counts (<<days, seconds, microseconds>>): the epoch, a date in
\* 2030, the two counts around 2^63 ns and around 2^64 ns, and u64::MAX
Usecs ==
    { Zero, <<21914, 43200, 456789>>,
      <<106751, 85636, 854775>>, <<106751, 85636, 854776>>,
      <<213503, 84873, 709551>>, <<213503, 84873, 709552>>,
      U64Max }

\* What ListSessions answers (the session ids of its tuples, or its failure),
\* the caller's session as logind knows it and as XDG_SESSION_ID names it
SessionInputs ==
    { [sessions |-> l, by_pid |-> p, env |-> e] :
        l \in { Ok(<<>>), Ok(<<"1">>), Ok(<<"2">>), Ok(<<"1", "2">>),
                Ok(<<"2", "1">>), Err },
        p \in {Ok("1"), Ok("2"), Err},
        e \in {Ok("1"), Ok("2"), Err} }

\* SessionClient::session_id: the id logind reports for the process, else
\* XDG_SESSION_ID
session_id(by_pid, env) == IF by_pid.tag = "ok" THEN by_pid ELSE env

\* SessionClient::has_other_sessions
has_other_sessions(sessions, by_pid, env) ==
    IF sessions.tag # "ok" THEN Err
    ELSE LET our_id == session_id(by_pid, env)
         IN  IF our_id.tag = "ok"
             THEN Ok(\E i \in 1..Len(sessions.val) : sessions.val[i] = our_id.val)
             ELSE Ok(sessions.val # <<>>)

InitFunctions ==
    /\ InitScheduler
    /\ RunnerNotStarted
    /\ timers = <<Silent, TimerReport(Err, Ok(MonotonicB))>>
    /\ clock = CHOOSE c \in Clocks : TRUE
    /\ rtcPresent = TRUE
    /\ adjtime = AdjAbsent
    /\ rtc = RtcWakeAlarm(0, 0, RtcTime(0, 0, 0, 1, 0, 100))
    /\ output = <<>>
    /\ \/ fn = "from_chrono" /\ input \in NaiveInstants \cup LeapInstants
       \/ fn = "to_chrono" /\ input \in RtcTimes
       \/ fn = "read_clock_mode" /\ input \in ClockModeFiles
       \/ fn = "from_timestamp_usecs" /\ input \in Usecs
       \/ fn = "has_other_sessions" /\ input \in SessionInputs

\* The value the next conversion of a chain takes
ChainValue == IF output = <<>> THEN input ELSE output[Len(output)].val

\* A chain goes on while nothing panicked and it is shorter than MaxChain
ChainOpen ==
    /\ fn \in {"from_chrono", "to_chrono"}
    /\ Len(output) < MaxChain
    /\ output # <<>> => output[Len(output)].tag = "ok"

\* Whether the chain holds a calendar instant (to encode) or a hardware time
EncodeNext == (fn = "from_chrono") = (Len(output) % 2 = 0)

\* RtcTime::from_chrono(&dt)
FromChrono ==
    /\ ChainOpen
    /\ EncodeNext
    /\ output' = Append(output, Ok(from_chrono(ChainValue)))
    /\ UNCHANGED <<fn, input, schedulerVars, runnerVars>>

\* rtc_time.to_chrono()
ToChrono ==
    /\ ChainOpen
    /\ ~EncodeNext
    /\ output' = Append(output, to_chrono(ChainValue))
    /\ UNCHANGED <<fn, input, schedulerVars, runnerVars>>

\* Rtc::read_clock_mode()
ReadClockMode ==
    /\ fn = "read_clock_mode"
    /\ output = <<>>
    /\ output' = <<read_clock_mode(input)>>
    /\ UNCHANGED <<fn, input, schedulerVars, runnerVars>>

\* from_timestamp_usecs(usecs)
FromTimestampUsecs ==
    /\ fn = "from_timestamp_usecs"
    /\ output = <<>>
    /\ output' = <<from_timestamp_usecs(input, overflowChecks)>>
    /\ UNCHANGED <<fn, input, schedulerVars, runnerVars>>

\* client.has_other_sessions()
HasOtherSessions ==
    /\ fn = "has_other_sessions"
    /\ output = <<>>
    /\ output' = <<has_other_sessions(input.sessions, input.by_pid, input.env)>>
    /\ UNCHANGED <<fn, input, schedulerVars, runnerVars>>

NextFunctions ==
    \/ FromChrono
    \/ ToChrono
    \/ ReadClockMode
    \/ FromTimestampUsecs
    \/ HasOtherSessions

SpecFunctions == InitFunctions /\ [][NextFunctions]_vars

---------------------------------------------------------------------------
(* The calendar conversions of RtcTime *)

\* The dates of NaiveInstants as the calendar names them: <<year, month, day>>
KnownDate(days) ==
    CASE days = 0 -> <<1970, 1, 1>>
      [] days = 58 -> <<1970, 2, 28>>
      [] days = 59 -> <<1970, 3, 1>>
      [] days = 789 -> <<1972, 2, 29>>
      [] days = 10957 -> <<2000, 1, 1>>
      [] days = 11016 -> <<2000, 2, 29>>
      [] days = 11017 -> <<2000, 3, 1>>
      [] days = 16616 -> <<2015, 6, 30>>
      [] days = 47481 -> <<2099, 12, 31>>

\* The value the i-th conversion of the chain took
ChainInput(i) == IF i = 1 THEN input ELSE output[i - 1].val

\* Whether the i-th conversion of the chain is a to_chrono
IsDecode(i) == (fn = "to_chrono") = (i % 2 = 1)

\* C24: an instant with whole seconds between 1970-01-01 and 2099-12-31 is
\* encoded with its month counted from 0 and its year from 1900, and decoding
\* the encoded time gives the instant back.
RtcTimeRoundTrip ==
    (fn = "from_chrono" /\ input \in NaiveInstants) =>
        /\ output # <<>> =>
              LET t == output[1].val
                  date == KnownDate(input[1])
              IN  /\ t.tm_year = date[1] - 1900
                  /\ t.tm_mon = date[2] - 1
                  /\ t.tm_mday = date[3]
                  /\ t.tm_hour * 3600 + t.tm_min * 60 + t.tm_sec = input[2]
                  /\ t.tm_min \in 0..59 /\ t.tm_sec \in 0..59
        /\ Len(output) >= 2 => output[2] = Ok(input)

\* The last second of 2099 and of February 29th 2000 came back from the round trip
RoundTripDone ==
    /\ fn = "from_chrono"
    /\ input \in {<<47481, 86399, 0>>, <<11016, 86399, 0>>}
    /\ Len(output) >= 2
    /\ output[1].val.tm_mon \in {11, 1}
    /\ output[2] = Ok(input)

\* C25: an instant whose sub-second part exceeds 999 ms is encoded with
\* tm_sec = 60; a time with tm_sec = 60 decodes to second 59 with a sub-second
\* part of at least 999 ms, and encoding that instant gives tm_sec = 60 again.
LeapSecondEncoding ==
    \A i \in 1..Len(output) :
        /\ (fn \in {"from_chrono", "to_chrono"} /\ ~IsDecode(i)
              /\ ChainInput(i)[3] \div (1000 * 1000) > 999)
           => output[i].val.tm_sec = 60
        /\ (fn \in {"from_chrono", "to_chrono"} /\ IsDecode(i)
              /\ ChainInput(i).tm_sec = 60)
           => /\ output[i].tag = "ok"
              /\ output[i].val[2] % 60 = 59
              /\ output[i].val[3] \div (1000 * 1000) >= 999
              /\ i < Len(output) => output[i + 1].val.tm_sec = 60

\* 2015-06-30T23:59:60 was decoded and encoded again
LeapSecondReencoded ==
    /\ fn = "to_chrono"
    /\ input = RtcTime(60, 59, 23, 30, 5, 115)
    /\ Len(output) >= 2
    /\ output[1] = Ok(<<16616, 86399, 1999 * (1000 * 1000)>>)
    /\ output[2].val.tm_sec = 60

---------------------------------------------------------------------------
(* read_clock_mode on its own *)

\* `line` is `word` with white space before and after it, and nothing else
Surrounds(line, word) ==
    \E i \in 0..Len(line) :
        /\ i + Len(word) <= Len(line)
        /\ SubSeq(line, i + 1, i + Len(word)) = word
        /\ \A k \in 1..Len(line) :
              (k <= i \/ k > i + Len(word)) => line[k] \in Whitespace

\* C26: read_clock_mode answers UTC when /etc/adjtime does not exist; for a
\* file it can read it answers by the third line without the white space
\* around it: UTC for "UTC", Local for "LOCAL", an error for anything else,
\* and an error, not UTC, for a file of fewer than three lines.
ClockModeOfThirdLine ==
    (fn = "read_clock_mode" /\ output # <<>>) =>
        LET utc == <<"U", "T", "C">>
            loc == <<"L", "O", "C", "A", "L">>
        IN  /\ ~input.exists => output[1] = ModeOk("Utc")
            /\ (input.exists /\ input.readable /\ Len(input.lines) < 3)
               => output[1] = ModeErr
            /\ (input.exists /\ input.readable /\ Len(input.lines) >= 3)
               => /\ Surrounds(input.lines[3], utc) => output[1] = ModeOk("Utc")
                  /\ Surrounds(input.lines[3], loc) => output[1] = ModeOk("Local")
                  /\ (~Surrounds(input.lines[3], utc) /\ ~Surrounds(input.lines[3], loc))
                     => output[1] = ModeErr

\* A third line of " UTC<tab>" was read as UTC
PaddedUtcRead ==
    /\ fn = "read_clock_mode"
    /\ input.exists /\ Len(input.lines) >= 3
    /\ input.lines[3] = <<" ", "U", "T", "C", "\t">>
    /\ output = <<ModeOk("Utc")>>

---------------------------------------------------------------------------
(* from_timestamp_usecs and has_other_sessions on their own *)

\* C27: from_timestamp_usecs is exact for every u64: the instant it returns
\* is the given number of microseconds after the epoch, without wrap-around
\* or overflow, u64::MAX included.
FromTimestampUsecsExact ==
    (fn = "from_timestamp_usecs" /\ output # <<>>) =>
        output[1] = Ok(<<input[1], input[2], input[3] * 1000>>)

\* C29: has_other_sessions answers true exactly when a session other than the
\* caller's exists: with the caller's session id known, when the list holds a
\* session with a different id; without one, when the list is not empty.
HasOtherSessionsExact ==
    (fn = "has_other_sessions" /\ output # <<>> /\ input.sessions.tag = "ok") =>
        LET sessions == input.sessions.val
            our_id == session_id(input.by_pid, input.env)
        IN  output[1] =
               Ok(IF our_id.tag = "ok"
                  THEN \E i \in 1..Len(sessions) : sessions[i] # our_id.val
                  ELSE sessions # <<>>)

---------------------------------------------------------------------------
(* set_wake_alarm: what a successful call leaves in the RTC *)

\* Two instants in the same second, the resolution of the RTC
SameSecond(a, b) == a[1] = b[1] /\ a[2] = b[2]

\* C30: when set_wake_alarm returns Ok for the target T it has issued the
\* write, and the alarm written is enabled and stands, at the RTC's resolution
\* of one second, for the earlier of T and the alarm found enabled; the time
\* of an alarm found disabled is ignored, the alarm written stands for T.  On
\* the path that keeps the existing alarm the write is issued all the same.
WrittenAlarmIsEarlier ==
    rtcRes = "ok" =>
        /\ rtcOps = <<"open", "read", "write">>
        /\ enabled(rtc)
        /\ IF enabled(rtcPrev) /\ TLess(PrevInstant, alarm_time.val)
           THEN rtc.time = rtcPrev.time
           ELSE SameSecond(NewHardwareTime, HardwareTarget)

\* A disabled alarm with a stale, earlier time was enabled and set to the
\* second of a target that has a sub-second part
StaleAlarmOverwritten ==
    /\ rtcRes = "ok"
    /\ rtcOps[3] = "write"
    /\ enabled(rtc)
    /\ ~enabled(rtcPrev)
    /\ TLess(PrevInstant, alarm_time.val)
    /\ alarm_time.val[3] # 0
    /\ rtc.time # rtcPrev.time
    /\ SameSecond(NewHardwareTime, HardwareTarget)

---------------------------------------------------------------------------
(* The runner: when the two attribution inputs are sampled *)

\* start_time, the uptime and should_shutdown are set in this step
SamplesUptime ==
    \/ uptime' # uptime
    \/ should_shutdown' # should_shutdown
    \/ start_time' # start_time

\* The resume-timestamp file holds the instant of a PostSleep callback that
\* ran at or after the runner's start time
ResumeWrittenDuringRun ==
    /\ resumed.tag = "ok"
    /\ resume_file = [tag |-> "ms", val |-> timestamp_millis(resumed.val)]
    /\ TLeq(start_time.val, resumed.val)

\* The uptime is sampled once, before any call of the run, and a decision
\* taken without boot attribution on a timestamp written during the run is
\* Suspend
SampledApart ==
    /\ SamplesUptime => (rpc = "idle" /\ uptime = Unset /\ calls = <<>>)
    /\ (RunnerDecides /\ should_shutdown) => calls' = Append(calls, "PowerOff")
    /\ (RunnerDecides /\ ~should_shutdown /\ ResumeWrittenDuringRun)
       => calls' = Append(calls, "Suspend")

\* C31: the uptime is read once before StartUnit; the resume
\* timestamp counts as it is once the job StartUnit started has completed, and
\* only without boot attribution: written during the run it leads to Suspend.
SampledAfterPayloadJob ==
    [][ /\ SampledApart
        /\ RunnerDecides
           => \E k \in 1..Len(jobs) : jobs[k].job = "started" /\ jobs[k].unit = unit
      ]_vars

---------------------------------------------------------------------------
(* The scheduler: an Inhibit call that fails *)

\* The signal being handled
LastSignal == hist[Len(hist)]

\* take_inhibitor is returning from a failed Inhibit call inside the
\* PrepareForSleep(false) closure
InhibitFailsOnResume == NextStep("take") /\ todo' # todo /\ lockOp' = "take_err"

\* run_blocking is returning from a failed Inhibit call
InhibitFailsAtStart == pc = "start" /\ pc' # pc /\ lockOp' = "take_err"

\* C32: an Inhibit call that fails while PrepareForSleep(false) is handled
\* leaves the monitor running without a lock, nothing changed but the count of
\* calls; Inhibit is called only at the start and while PrepareForSleep(false)
\* is handled, with no lock held; a Pre signal received without a lock still
\* queues its callback; and a failed Inhibit at the start ends run_blocking
\* with an error before any signal is processed, and for good.
FailedInhibitOnResumeSwallowed ==
    [][ /\ InhibitFailsOnResume
           => /\ pc' = "run"
              /\ inhibitor = 0 /\ inhibitor' = 0
              /\ fds' = fds /\ closes' = closes
              /\ inhibits' = inhibits + 1
              /\ events' = events
              /\ todo' = <<>>
        /\ inhibits' # inhibits
           => /\ inhibitor = 0
              /\ \/ pc = "start"
                 \/ /\ NextStep("take")
                    /\ LastSignal.name = "PrepareForSleep" /\ ~LastSignal.arg
        /\ (pc = "run" /\ hist' # hist /\ hist'[Len(hist')].arg)
           => /\ todo' # <<>>
              /\ Head(todo') = Step("callback",
                                    IF hist'[Len(hist')].name = "PrepareForSleep"
                                    THEN "PreSleep" ELSE "PreShutdown")
        /\ InhibitFailsAtStart
           => pc' = "exited" /\ hist' = <<>> /\ events' = <<>> /\ inhibitor' = 0
        /\ pc = "exited" => (pc' = "exited" /\ hist' = hist /\ events' = events)
      ]_vars

\* Inhibit failed on a resume; the PrepareForSleep(true) that followed found
\* no lock and its PreSleep event was handed to the callback
PreSleepAfterFailedInhibit ==
    /\ pc = "run"
    /\ Len(hist) >= 2
    /\ \E i \in 1..(Len(hist) - 1) :
          /\ hist[i].name = "PrepareForSleep" /\ ~hist[i].arg /\ hist[i].fd = 0
          /\ hist[i + 1].name = "PrepareForSleep" /\ hist[i + 1].arg
          /\ hist[i + 1].fd = 0
          /\ hist[i + 1].inhibits = hist[i].inhibits + 1
          /\ i + 1 = Len(hist)
    /\ events # <<>> /\ events[Len(events)] = "PreSleep"
    /\ inhibitor = 0

===========================================================================
